---------------------------- MODULE Spec2Model ----------------------------
(***************************************************************************)
(* A model of rtiles, a tile server made of three independent components:  *)
(*                                                                         *)
(*   - the metric aggregator of stat.rs (StatTable, Stat): SpecStat;       *)
(*   - the verdict cache of access.rs (ModelAccess): SpecAccess;           *)
(*   - the body cache of cache.rs (FileCache, CachedNamedFile, Content):   *)
(*     SpecCache.                                                          *)
(*                                                                         *)
(* The components share no state in the source, so each has its own        *)
(* next-state relation and specification over the common variables; Spec   *)
(* is their interleaving.                                                  *)
(***************************************************************************)
EXTENDS Integers, Sequences, FiniteSets, TLC

\* Option::None of the source's Option<String> fields.
None == "None"

(***************************************************************************)
(*                         stat.rs: metric aggregator                      *)
(***************************************************************************)

\* Bounds of the metric model.
MaxRecords == 2        \* records ever sent through Stat::insert
ChanCap == 1           \* capacity of the mpsc channel (500 in stat.rs:128), scaled

StatObjects == {"lake", "land"}
StatModels == {"first", "second"}

\* struct StatKey { object: Option<String>, model: Option<String> }
StatKey == [object : StatObjects \cup {None}, model : StatModels \cup {None}]

\* StatKey::default(): the key of the server-wide aggregate.
GlobalKey == [object |-> None, model |-> None]

\* The per-object aggregate key StatKey { object, model: None }.
ObjectKey(o) == [object |-> o, model |-> None]

\* StatKey::new(object, model): a leaf key.
LeafKey(o, m) == [object |-> o, model |-> m]

\* Metrics::default()
ZeroMetrics == [hits |-> 0, bytes |-> 0]

\* The metrics a record may carry (hits and bytes are u64 in the source; the
\* values of the model stay far below 2^64, so no addition overflows).
MetricsIn == {[hits |-> 1, bytes |-> 2]}

\* struct Record { key, metrics }
Record == [key : StatKey, metrics : MetricsIn]

\* impl AddAssign for Metrics: componentwise addition.
AddAssign(a, b) == [hits |-> a.hits + b.hits, bytes |-> a.bytes + b.bytes]

\* map.entry(key).or_insert(Metrics::default()) followed by *metrics += m.
EntryAdd(map, key, m) ==
    IF key \in DOMAIN map
    THEN [map EXCEPT ![key] = AddAssign(@, m)]
    ELSE map @@ (key :> AddAssign(ZeroMetrics, m))

\* A variant of StatTable::insert that keeps the object of a record whose
\* model is absent, adding the record to (object, None) itself.
StatTableInsertKeepObject(map, rec) ==
    IF rec.key.model # None /\ rec.key.object = None
    THEN map
    ELSE LET m1 == IF rec.key.model # None
                   THEN EntryAdd(map, ObjectKey(rec.key.object), rec.metrics)
                   ELSE map
             m2 == IF rec.key.object # None
                   THEN EntryAdd(m1, GlobalKey, rec.metrics)
                   ELSE m1
         IN EntryAdd(m2, rec.key, rec.metrics)

\* A variant of StatTable::insert without the early return on an illegal key.
StatTableInsertNoReject(map, rec) ==
    LET m1 == IF rec.key.model # None
              THEN EntryAdd(map, ObjectKey(rec.key.object), rec.metrics)
              ELSE map
        key1 == IF rec.key.model # None
                THEN rec.key
                ELSE [rec.key EXCEPT !.object = None]
        m2 == IF key1.object # None
              THEN EntryAdd(m1, GlobalKey, rec.metrics)
              ELSE m1
    IN EntryAdd(m2, key1, rec.metrics)

\* A variant of StatTable::insert that skips the server-wide aggregate.
StatTableInsertNoGlobal(map, rec) ==
    IF rec.key.model # None /\ rec.key.object = None
    THEN map
    ELSE LET m1 == IF rec.key.model # None
                   THEN EntryAdd(map, ObjectKey(rec.key.object), rec.metrics)
                   ELSE map
             key1 == IF rec.key.model # None
                     THEN rec.key
                     ELSE [rec.key EXCEPT !.object = None]
         IN EntryAdd(m1, key1, rec.metrics)

\* A variant of StatTable::insert that skips the aggregate of the object.
StatTableInsertNoObject(map, rec) ==
    IF rec.key.model # None /\ rec.key.object = None
    THEN map
    ELSE LET key1 == IF rec.key.model # None
                     THEN rec.key
                     ELSE [rec.key EXCEPT !.object = None]
             m2 == IF key1.object # None
                   THEN EntryAdd(map, GlobalKey, rec.metrics)
                   ELSE map
         IN EntryAdd(m2, key1, rec.metrics)

\* A variant of StatTable::insert in which a record without model starts the
\* server-wide aggregate anew.
StatTableInsertResetGlobal(map, rec) ==
    IF rec.key.model # None /\ rec.key.object = None
    THEN map
    ELSE LET m1 == IF rec.key.model # None
                   THEN EntryAdd(map, ObjectKey(rec.key.object), rec.metrics)
                   ELSE [k \in DOMAIN map \ {GlobalKey} |-> map[k]]
             key1 == IF rec.key.model # None
                     THEN rec.key
                     ELSE [rec.key EXCEPT !.object = None]
             m2 == IF key1.object # None
                   THEN EntryAdd(m1, GlobalKey, rec.metrics)
                   ELSE m1
         IN EntryAdd(m2, key1, rec.metrics)

\* StatTable::insert, the whole body under the write lock:
\*   model present, object absent: the record is ignored (early return);
\*   model present: add to the aggregate of the object;
\*   model absent: the object of the key is cleared (rec.key.object.take());
\*   object (still) present: add to the server-wide aggregate;
\*   finally add to the entry of the (possibly rewritten) key.
StatTableInsert(map, rec) ==
    IF rec.key.model # None /\ rec.key.object = None
    THEN map
    ELSE LET m1 == IF rec.key.model # None
                   THEN EntryAdd(map, ObjectKey(rec.key.object), rec.metrics)
                   ELSE map
             key1 == IF rec.key.model # None
                     THEN rec.key
                     ELSE [rec.key EXCEPT !.object = None]
             m2 == IF key1.object # None
                   THEN EntryAdd(m1, GlobalKey, rec.metrics)
                   ELSE m1
         IN EntryAdd(m2, key1, rec.metrics)

\* StatTable::get: the entry of the key, or Metrics::default() when absent.
StatTableGet(map, key) == IF key \in DOMAIN map THEN map[key] ELSE ZeroMetrics

VARIABLES
    table,        \* StatTable: the HashMap<StatKey, Metrics> behind the RwLock
    chan,         \* the records queued in the mpsc channel of Stat
    cur,          \* the record the consumer task has received and not yet applied
    nsent,        \* number of completed Stat::insert calls
    sentSum,      \* history: per key, the sum of the metrics of the records sent with it
    gpc,          \* position of the task inside Stat::get
    gkey,         \* the key of the Stat::get in progress or last completed
    gres,         \* the value the last Stat::get returned
    gsnap,        \* history: what the records sent before the call of get amount to for gkey
    gexp,         \* history: what the records sent before the read of get amount to for gkey
    gdrained      \* history: whether every record sent was applied when get read

statVars == <<table, chan, cur, nsent, sentSum, gpc, gkey, gres, gsnap, gexp, gdrained>>

NoRec == [key |-> GlobalKey, metrics |-> ZeroMetrics]
NoRes == [hits |-> -1, bytes |-> -1]
EmptyTable == [k \in {} |-> ZeroMetrics]

\* Componentwise sum of f[k] over the keys k of the finite set S.
RECURSIVE SumOver(_, _)
SumOver(f, S) ==
    IF S = {} THEN ZeroMetrics
    ELSE LET k == CHOOSE x \in S : TRUE
         IN AddAssign(f[k], SumOver(f, S \ {k}))

LeafKeys == {k \in StatKey : k.object # None /\ k.model # None}
LeafKeysOf(o) == {k \in LeafKeys : k.object = o}
AbsentModelKeys == {k \in StatKey : k.model = None}
IllegalKeys == {k \in StatKey : k.object = None /\ k.model # None}

\* The table read through StatTable::get, as a function of every key.
Got(map) == [k \in StatKey |-> StatTableGet(map, k)]

\* What the records sent so far amount to for a key: a leaf key sums its own
\* records, an object key the records of its leaves, the global key every record
\* whose key is not illegal, and an illegal key nothing.
Expected(sums, key) ==
    IF key = GlobalKey THEN SumOver(sums, LeafKeys \cup AbsentModelKeys)
    ELSE IF key \in LeafKeys THEN sums[key]
    ELSE IF key \in IllegalKeys THEN ZeroMetrics
    ELSE SumOver(sums, LeafKeysOf(key.object))

MetricsGeq(a, b) == a.hits >= b.hits /\ a.bytes >= b.bytes

\* Stat::new: an empty table, an empty channel, the consumer waiting in recv.
InitStat ==
    /\ table = EmptyTable
    /\ chan = <<>>
    /\ cur = NoRec
    /\ nsent = 0
    /\ sentSum = [k \in StatKey |-> ZeroMetrics]
    /\ gpc = "idle"
    /\ gkey = GlobalKey
    /\ gres = NoRes
    /\ gsnap = ZeroMetrics
    /\ gexp = ZeroMetrics
    /\ gdrained = FALSE

\* A variant of Stat::insert that uses try_send: a record sent while the channel
\* is full is lost.
StatInsertTrySend(rec) ==
    /\ nsent < MaxRecords
    /\ chan' = IF Len(chan) < ChanCap THEN Append(chan, rec) ELSE chan
    /\ nsent' = nsent + 1
    /\ sentSum' = [sentSum EXCEPT ![rec.key] = AddAssign(@, rec.metrics)]
    /\ UNCHANGED <<table, cur, gpc, gkey, gres, gsnap, gexp, gdrained>>

\* Stat::insert: tx.send(rec).await completes once the channel has room.
StatInsert(rec) ==
    /\ nsent < MaxRecords
    /\ Len(chan) < ChanCap
    /\ chan' = Append(chan, rec)
    /\ nsent' = nsent + 1
    /\ sentSum' = [sentSum EXCEPT ![rec.key] = AddAssign(@, rec.metrics)]
    /\ UNCHANGED <<table, cur, gpc, gkey, gres, gsnap, gexp, gdrained>>

\* The consumer task: rx.recv().await yields the oldest record.
ConsumerRecv ==
    /\ cur = NoRec
    /\ chan # <<>>
    /\ cur' = Head(chan)
    /\ chan' = Tail(chan)
    /\ UNCHANGED <<table, nsent, sentSum, gpc, gkey, gres, gsnap, gexp, gdrained>>

\* A consumer whose insert takes the write lock for each entry apart: a record
\* with object and model present is added to the entry of its object in one
\* step and to the other entries in a later one, a reader getting in between.
ConsumerInsertTorn ==
    /\ cur # NoRec
    /\ IF "torn" \in DOMAIN cur
       THEN /\ table' = EntryAdd(EntryAdd(table, GlobalKey, cur.metrics),
                                 cur.key, cur.metrics)
            /\ cur' = NoRec
       ELSE IF cur.key.model # None /\ cur.key.object # None
       THEN /\ table' = EntryAdd(table, ObjectKey(cur.key.object), cur.metrics)
            /\ cur' = [key |-> cur.key, metrics |-> cur.metrics, torn |-> TRUE]
       ELSE /\ table' = StatTableInsert(table, cur)
            /\ cur' = NoRec
    /\ UNCHANGED <<chan, nsent, sentSum, gpc, gkey, gres, gsnap, gexp, gdrained>>

\* The consumer task: all_rx.insert(rec).await, the write lock held throughout.
ConsumerInsert ==
    /\ cur # NoRec
    /\ table' = StatTableInsert(table, cur)
    /\ cur' = NoRec
    /\ UNCHANGED <<chan, nsent, sentSum, gpc, gkey, gres, gsnap, gexp, gdrained>>

\* Every record sent has been applied.
Drained == chan = <<>> /\ cur = NoRec

\* Stat::get, first half: task::yield_now().await.
StatGetYield(key) ==
    /\ gpc = "idle"
    /\ gpc' = "yielded"
    /\ gkey' = key
    /\ gres' = NoRes
    /\ gsnap' = Expected(sentSum, key)
    /\ gexp' = ZeroMetrics
    /\ gdrained' = FALSE
    /\ UNCHANGED <<table, chan, cur, nsent, sentSum>>

\* Stat::get, second half: self.all.get(key).await under the read lock.
StatGetRead ==
    /\ gpc = "yielded"
    /\ gpc' = "idle"
    /\ gres' = StatTableGet(table, gkey)
    /\ gexp' = Expected(sentSum, gkey)
    /\ gdrained' = Drained
    /\ UNCHANGED <<table, chan, cur, nsent, sentSum, gkey, gsnap>>

(***************************************************************************)
(*                     Properties of the metric aggregator                 *)
(***************************************************************************)

\* C7: once every record sent is applied, the entry (o, None) of every object o
\* is the componentwise sum of the entries (o, m) over the models m of o,
\* whatever keys the records carried.
C7_ObjectRollup ==
    Drained =>
        \A o \in StatObjects :
            StatTableGet(table, ObjectKey(o)) = SumOver(Got(table), LeafKeysOf(o))

\* C7 witness: records of two models of one object have been applied.
C7_Witness ==
    /\ Drained
    /\ StatTableGet(table, LeafKey("lake", "first")).hits = 1
    /\ StatTableGet(table, LeafKey("lake", "second")).hits = 1
    /\ StatTableGet(table, ObjectKey("lake")) = [hits |-> 2, bytes |-> 4]

\* C8 as stated: once every record sent is applied, the entry (None, None) is
\* the sum of all leaf entries, whatever keys the records carried.
C8_GlobalIsSumOfLeaves ==
    Drained => StatTableGet(table, GlobalKey) = SumOver(Got(table), LeafKeys)

\* C8 amended: once every record sent is applied, the entry (None, None) is the
\* sum of all leaf entries plus the metrics of the records sent with the model
\* absent, which insert adds to (None, None) alone.
C8_GlobalRollup ==
    Drained =>
        StatTableGet(table, GlobalKey) =
            AddAssign(SumOver(Got(table), LeafKeys), SumOver(sentSum, AbsentModelKeys))

\* C8 witness: a leaf record and a record keyed by an object alone have been applied.
C8_Witness ==
    /\ Drained
    /\ SumOver(Got(table), LeafKeys).hits = 1
    /\ sentSum[ObjectKey("land")].hits = 1
    /\ StatTableGet(table, GlobalKey) = [hits |-> 2, bytes |-> 4]

\* C9: the consumer's insert of a record whose key has the model present and
\* the object absent leaves the whole table unchanged, and no entry ever exists
\* under such a key.
C9_IllegalDropped ==
    [][/\ (cur # NoRec /\ cur.key \in IllegalKeys /\ cur' = NoRec) => table' = table
       /\ \A k \in IllegalKeys : StatTableGet(table', k) = ZeroMetrics
       /\ DOMAIN table' \cap IllegalKeys = {}]_statVars

\* C9 witness: a leaf record and a record with an illegal key were applied and
\* the global total is that of the leaf record.
C9_Witness ==
    /\ Drained
    /\ sentSum[[object |-> None, model |-> "first"]].hits = 1
    /\ sentSum[LeafKey("lake", "first")].hits = 1
    /\ StatTableGet(table, GlobalKey) = [hits |-> 1, bytes |-> 2]

RollupKeys(key) == {key, ObjectKey(key.object), GlobalKey}

\* C27: the step that applies a record whose key has object and model present
\* adds its metrics once to the entries (o, m), (o, None) and (None, None),
\* counted from zero when absent, creates no other entry and changes none.
C27_LeafRecordFrame ==
    [][(cur # NoRec /\ cur' = NoRec /\ cur.key.object # None /\ cur.key.model # None) =>
          /\ DOMAIN table' = DOMAIN table \cup RollupKeys(cur.key)
          /\ \A k \in StatKey :
                StatTableGet(table', k) =
                    IF k \in RollupKeys(cur.key)
                    THEN AddAssign(StatTableGet(table, k), cur.metrics)
                    ELSE StatTableGet(table, k)]_statVars

\* C27 witness: a record of (lake, first) has been applied to a table that held
\* records of (land, second) only: five entries, three of them new.
C27_Witness ==
    /\ cur = NoRec
    /\ chan = <<>>
    /\ nsent = 2
    /\ StatTableGet(table, LeafKey("lake", "first")) = [hits |-> 1, bytes |-> 2]
    /\ StatTableGet(table, ObjectKey("lake")) = [hits |-> 1, bytes |-> 2]
    /\ StatTableGet(table, LeafKey("land", "second")) = [hits |-> 1, bytes |-> 2]
    /\ StatTableGet(table, ObjectKey("land")) = [hits |-> 1, bytes |-> 2]
    /\ StatTableGet(table, GlobalKey) = [hits |-> 2, bytes |-> 4]
    /\ Cardinality(DOMAIN table) = 5

\* C28 as stated: the step that applies a record whose key has the object
\* present and the model absent adds its metrics to (None, None) and to the
\* entry of the key itself, (o, None).
C28_ObjectRecordAddsToObject ==
    [][(cur # NoRec /\ cur' = NoRec /\ cur.key.object # None /\ cur.key.model = None) =>
          /\ StatTableGet(table', GlobalKey) =
                 AddAssign(StatTableGet(table, GlobalKey), cur.metrics)
          /\ StatTableGet(table', cur.key) =
                 AddAssign(StatTableGet(table, cur.key), cur.metrics)]_statVars

\* C28 amended: the step that applies a record whose key has the object present
\* and the model absent adds its metrics once to (None, None) and changes no
\* other entry, the one of its own key (o, None) included; an entry (o, None)
\* changes only in a step that applies a record of o with the model present.
C28_ObjectRecordGlobalOnly ==
    [][/\ (cur # NoRec /\ cur' = NoRec /\ cur.key.object # None /\ cur.key.model = None) =>
             /\ DOMAIN table' = DOMAIN table \cup {GlobalKey}
             /\ \A k \in StatKey :
                   StatTableGet(table', k) =
                       IF k = GlobalKey
                       THEN AddAssign(StatTableGet(table, k), cur.metrics)
                       ELSE StatTableGet(table, k)
       /\ \A o \in StatObjects :
             StatTableGet(table', ObjectKey(o)) # StatTableGet(table, ObjectKey(o)) =>
                 (cur.key.object = o /\ cur.key.model # None)]_statVars

\* C28 witness: a record keyed (lake, None) has been applied after a record of
\* (lake, first): the entry (lake, None) holds the one record, the global two.
C28_Witness ==
    /\ cur = NoRec
    /\ chan = <<>>
    /\ sentSum[ObjectKey("lake")] = [hits |-> 1, bytes |-> 2]
    /\ sentSum[LeafKey("lake", "first")] = [hits |-> 1, bytes |-> 2]
    /\ StatTableGet(table, ObjectKey("lake")) = [hits |-> 1, bytes |-> 2]
    /\ StatTableGet(table, GlobalKey) = [hits |-> 2, bytes |-> 4]

\* The table after the records of a sequence are applied in its order to the
\* empty table.
RECURSIVE Applied(_)
Applied(recs) ==
    IF recs = <<>> THEN EmptyTable
    ELSE StatTableInsert(Applied(SubSeq(recs, 1, Len(recs) - 1)), recs[Len(recs)])

\* The number of times a key occurs in a sequence of records.
Occurrences(recs, key) == Cardinality({i \in DOMAIN recs : recs[i].key = key})

\* Every order in which the records sent so far can be applied.
Orders ==
    {recs \in [1..nsent -> Record] :
        \A key \in StatKey : Occurrences(recs, key) = sentSum[key].hits}

\* C29: once every record sent is applied, the table is the one that applying
\* the same records in any order gives: it depends on how many records of each
\* key were sent and not on their order.
C29_OrderIndependence ==
    Drained => \A recs \in Orders : Applied(recs) = table

\* C29 witness: a record keyed by an object alone and a record of a model have
\* been sent and applied, which two orders allow.
C29_Witness ==
    /\ Drained
    /\ nsent = 2
    /\ sentSum[ObjectKey("land")].hits = 1
    /\ sentSum[LeafKey("lake", "first")].hits = 1
    /\ Cardinality(Orders) = 2
    /\ StatTableGet(table, GlobalKey) = [hits |-> 2, bytes |-> 4]

\* Some record sent is not applied yet.
Pending == chan # <<>> \/ cur # NoRec

\* A step of the aggregator: a completed Stat::insert puts its record at the
\* end of a channel that had room; the consumer takes the record at the front
\* when it holds none; the table changes by the consumer applying the record it
\* holds.
IngestStep ==
    /\ nsent' # nsent =>
           /\ nsent' = nsent + 1
           /\ Len(chan) < ChanCap
           /\ \E rec \in Record :
                  /\ chan' = Append(chan, rec)
                  /\ sentSum' = [sentSum EXCEPT ![rec.key] = AddAssign(@, rec.metrics)]
    /\ (nsent' = nsent /\ chan' # chan) =>
           (cur = NoRec /\ chan # <<>> /\ cur' = Head(chan) /\ chan' = Tail(chan))
    /\ table' # table =>
           (cur # NoRec /\ cur' = NoRec /\ table' = StatTableInsert(table, cur))
    /\ (cur # NoRec /\ cur' # cur) => cur' = NoRec

C36_RollupBetweenInserts ==
    \A o \in StatObjects :
        StatTableGet(table, ObjectKey(o)) = SumOver(Got(table), LeafKeysOf(o))

\* C36 witness: a reader is about to take the read lock for the entry of an
\* object while one record of that object is applied and the consumer holds a
\* second one, not yet applied.
C36_Witness ==
    /\ gpc = "yielded"
    /\ gkey = ObjectKey("lake")
    /\ StatTableGet(table, ObjectKey("lake")).hits = 1
    /\ cur # NoRec
    /\ cur.key.object = "lake"
    /\ cur.key.model # None
    /\ nsent = 2

MaxTime == 3           \* the clock runs from 0 to MaxTime
MaxCalls == 2          \* calls of ModelAccess::check ever begun
TTL == 3               \* config.cache_ttl in clock ticks (1800 s by default), scaled
TTI == 2               \* config.cache_tti in clock ticks (300 s by default), scaled

Callers == {"t1", "t2"}

AccessObjects == {"tver"}
AccessNames == {"panorama"}
SessionValues == {"secret_key"}

\* struct AccessKey { model: Arc<Model>, session_id: SessionId }, with
\* Model { object, name } flattened.
AccessKey == [object : AccessObjects \cup {None},
              name : AccessNames \cup {None},
              session : SessionValues \cup {None}]

\* enum AccessMode
Granted == "Granted"
Denied == "Denied"

\* What rq.send().await may yield: Ok(res) with some status, or Err(err), which
\* is what a transport error and the 5 s timeout of the client both give.
Statuses == {200, 404}
Outcomes == [kind : {"response"}, status : Statuses]
            \cup [kind : {"error"}, status : {0}]
NoOutcome == [kind |-> "none", status |-> 0]

\* A variant of the match of check_remote that grants on every response.
CheckRemoteVerdictAnyResponse(outcome) ==
    IF outcome.kind = "response" THEN Granted ELSE Denied

\* check_remote, the match on rq.send().await:
\*   Ok(res) if res.status() == StatusCode::OK => Granted, Ok(_) => Denied,
\*   Err(_) => Denied.
CheckRemoteVerdict(outcome) ==
    IF outcome.kind = "response" /\ outcome.status = 200 THEN Granted ELSE Denied

\* A variant of the request that appends "/name" whenever the name is present.
CheckRemoteRequestNameAlone(key) ==
    [url |-> <<"server">> \o
             (IF key.object # None THEN <<key.object>> ELSE <<>>) \o
             (IF key.name # None THEN <<key.name>> ELSE <<>>),
     cookie |-> IF key.session # None THEN <<"PHPSESSID", key.session>> ELSE <<>>]

\* check_remote, the request: the url is the server, then "/object" when the
\* object is present, then "/name" when the object and the name are present; the
\* Cookie header "cookie_name=id" is set when the session is present.
CheckRemoteRequest(key) ==
    [url |-> <<"server">> \o
             (IF key.object # None
              THEN <<key.object>> \o (IF key.name # None THEN <<key.name>> ELSE <<>>)
              ELSE <<>>),
     cookie |-> IF key.session # None THEN <<"PHPSESSID", key.session>> ELSE <<>>]

NoRequest == [url |-> <<>>, cookie |-> <<>>]

\* A cache key that leaves the session out of the hash and of the equality.
StoreKeyNoSession(key) == [key EXCEPT !.session = None]

\* The key the cache stores a verdict under: AccessKey derives Hash and Eq over
\* all of its fields.
StoreKey(key) == key

NoEntry == [mode |-> "none", inserted |-> 0, accessed |-> 0, cause |-> NoOutcome]

\* An expiry policy in which every read renews the entry: time to idle alone.
LiveWhileRead(entry, t) ==
    /\ entry # NoEntry
    /\ t - entry.accessed < TTI

\* The expiry policy of the cache built in ModelAccess::new: an entry is live
\* while less than time_to_live has passed since it was inserted and less than
\* time_to_idle since it was last read.
Live(entry, t) ==
    /\ entry # NoEntry
    /\ t - entry.inserted < TTL
    /\ t - entry.accessed < TTI

IdleCaller == [pc |-> "idle", key |-> [object |-> None, name |-> None, session |-> None],
               res |-> "none", how |-> "none", outcome |-> NoOutcome, nreq |-> 0]

VARIABLES
    now,          \* the clock the cache reads
    vcache,       \* the entries of ModelAccess.cache, per stored key
    caller,       \* per task: its position in check, its key, the verdict returned; as
                  \* history, how it got it (hit, load, wait), the outcome of the request
                  \* and the number of requests sent in the window of that load
    wire,         \* per task: the request it has sent and awaits the answer of
    ncalls,       \* number of calls of check begun
    winReqs,      \* history: per key, requests sent since the key last had no call in progress
    granted200    \* history: the keys whose load the authority answered with 200

accessVars == <<now, vcache, caller, wire, ncalls, winReqs, granted200>>

\* ModelAccess::new: an empty cache; no call in progress.
InitAccess ==
    /\ now = 0
    /\ vcache = [k \in AccessKey |-> NoEntry]
    /\ caller = [c \in Callers |-> IdleCaller]
    /\ wire = [c \in Callers |-> NoRequest]
    /\ ncalls = 0
    /\ winReqs = [k \in AccessKey |-> 0]
    /\ granted200 = {}

\* The verdict cache one tick after a first check of the model's key was
\* granted at time 0: the cache holds that verdict, read last at time 1.
InitExpiry ==
    /\ now = 1
    /\ vcache = [k \in AccessKey |->
                   IF k = [object |-> "tver", name |-> "panorama",
                           session |-> "secret_key"]
                   THEN [mode |-> Granted, inserted |-> 0, accessed |-> 1,
                         cause |-> [kind |-> "response", status |-> 200]]
                   ELSE NoEntry]
    /\ caller = [c \in Callers |-> IdleCaller]
    /\ wire = [c \in Callers |-> NoRequest]
    /\ ncalls = 0
    /\ winReqs = [k \in AccessKey |->
                    IF k = [object |-> "tver", name |-> "panorama",
                            session |-> "secret_key"] THEN 1 ELSE 0]
    /\ granted200 = {[object |-> "tver", name |-> "panorama",
                      session |-> "secret_key"]}

\* A load of the key is in flight: some call evaluates check_remote for it.
InFlight(key) ==
    \E c \in Callers : caller[c].pc \in {"load", "sent"}
                       /\ StoreKey(caller[c].key) = StoreKey(key)

\* Some call of check for the key has begun and not returned.
Active(key) ==
    \E c \in Callers : caller[c].pc \in {"load", "sent", "wait"}
                       /\ caller[c].key = key

\* A variant of check that never reads the cache and always asks the authority.
CheckCallNoLookup(c, key) ==
    /\ caller[c].pc = "idle"
    /\ ncalls < MaxCalls
    /\ ncalls' = ncalls + 1
    /\ caller' = [caller EXCEPT ![c] = [IdleCaller EXCEPT !.pc = "load", !.key = key,
                                                          !.how = "load"]]
    /\ winReqs' = IF Active(key) THEN winReqs ELSE [winReqs EXCEPT ![key] = 0]
    /\ UNCHANGED <<now, vcache, wire, granted200>>

\* A variant of check without single-flight: every miss evaluates check_remote.
CheckCallNoCoalescing(c, key) ==
    /\ caller[c].pc = "idle"
    /\ ncalls < MaxCalls
    /\ ncalls' = ncalls + 1
    /\ IF Live(vcache[StoreKey(key)], now)
       THEN /\ caller' = [caller EXCEPT ![c] =
                            [IdleCaller EXCEPT !.pc = "done", !.key = key, !.how = "hit",
                                               !.res = vcache[StoreKey(key)].mode]]
            /\ vcache' = [vcache EXCEPT ![StoreKey(key)].accessed = now]
            /\ UNCHANGED winReqs
       ELSE /\ caller' = [caller EXCEPT ![c] =
                            [IdleCaller EXCEPT !.pc = "load", !.key = key, !.how = "load"]]
            /\ winReqs' = IF Active(key) THEN winReqs ELSE [winReqs EXCEPT ![key] = 0]
            /\ UNCHANGED vcache
    /\ UNCHANGED <<now, wire, granted200>>

\* ModelAccess::check, the call of cache.get_with(key, check_remote(key)):
\*   a live entry is returned (and counts as a read of the entry);
\*   otherwise, when a load of the key is in flight, the call waits for it;
\*   otherwise the call becomes the loader and evaluates check_remote.
CheckCall(c, key) ==
    /\ caller[c].pc = "idle"
    /\ ncalls < MaxCalls
    /\ ncalls' = ncalls + 1
    /\ IF Live(vcache[StoreKey(key)], now)
       THEN /\ caller' = [caller EXCEPT ![c] =
                            [IdleCaller EXCEPT !.pc = "done", !.key = key, !.how = "hit",
                                               !.res = vcache[StoreKey(key)].mode]]
            /\ vcache' = [vcache EXCEPT ![StoreKey(key)].accessed = now]
            /\ UNCHANGED winReqs
       ELSE IF InFlight(key)
       THEN /\ caller' = [caller EXCEPT ![c] =
                            [IdleCaller EXCEPT !.pc = "wait", !.key = key, !.how = "wait"]]
            /\ UNCHANGED <<vcache, winReqs>>
       ELSE /\ caller' = [caller EXCEPT ![c] =
                            [IdleCaller EXCEPT !.pc = "load", !.key = key, !.how = "load"]]
            /\ winReqs' = IF Active(key) THEN winReqs ELSE [winReqs EXCEPT ![key] = 0]
            /\ UNCHANGED vcache
    /\ UNCHANGED <<now, wire, granted200>>

\* check_remote up to rq.send(): the loader builds the request and sends it.
CheckRemoteSend(c) ==
    /\ caller[c].pc = "load"
    /\ caller' = [caller EXCEPT ![c].pc = "sent"]
    /\ wire' = [wire EXCEPT ![c] = CheckRemoteRequest(caller[c].key)]
    /\ winReqs' = [winReqs EXCEPT ![caller[c].key] = @ + 1]
    /\ UNCHANGED <<now, vcache, ncalls, granted200>>

\* The calls that take the value of the load of c: the loader and its waiters.
Served(c) ==
    {d \in Callers : d = c \/ (caller[d].pc = "wait"
                               /\ StoreKey(caller[d].key) = StoreKey(caller[c].key))}

\* A variant of the end of the load that does not keep the verdict of a failed
\* request.
CheckRemoteReturnNoStoreOnError(c, outcome) ==
    /\ caller[c].pc = "sent"
    /\ LET mode == CheckRemoteVerdict(outcome)
       IN /\ vcache' = IF outcome.kind = "response"
                       THEN [vcache EXCEPT ![StoreKey(caller[c].key)] =
                               [mode |-> mode, inserted |-> now, accessed |-> now,
                                cause |-> outcome]]
                       ELSE vcache
          /\ caller' = [d \in Callers |->
                          IF d \in Served(c)
                          THEN [caller[d] EXCEPT !.pc = "done", !.res = mode,
                                                 !.outcome = outcome,
                                                 !.nreq = winReqs[caller[c].key]]
                          ELSE caller[d]]
    /\ wire' = [wire EXCEPT ![c] = NoRequest]
    /\ granted200' = IF outcome.kind = "response" /\ outcome.status = 200
                     THEN granted200 \cup {caller[c].key}
                     ELSE granted200
    /\ UNCHANGED <<now, ncalls, winReqs>>

\* A variant of the end of the load that hands Denied to the calls that waited.
CheckRemoteReturnWaitersDenied(c, outcome) ==
    /\ caller[c].pc = "sent"
    /\ LET mode == CheckRemoteVerdict(outcome)
       IN /\ vcache' = [vcache EXCEPT ![StoreKey(caller[c].key)] =
                          [mode |-> mode, inserted |-> now, accessed |-> now,
                           cause |-> outcome]]
          /\ caller' = [d \in Callers |->
                          IF d \in Served(c)
                          THEN [caller[d] EXCEPT !.pc = "done",
                                                 !.res = IF d = c THEN mode ELSE Denied,
                                                 !.outcome = outcome,
                                                 !.nreq = winReqs[caller[c].key]]
                          ELSE caller[d]]
    /\ wire' = [wire EXCEPT ![c] = NoRequest]
    /\ granted200' = IF outcome.kind = "response" /\ outcome.status = 200
                     THEN granted200 \cup {caller[c].key}
                     ELSE granted200
    /\ UNCHANGED <<now, ncalls, winReqs>>

\* The end of the load: rq.send().await yields the outcome, check_remote maps it
\* to a verdict, get_with inserts the verdict (in place of an expired entry, if
\* any) and hands it to the loader and to every call waiting for the load.
CheckRemoteReturn(c, outcome) ==
    /\ caller[c].pc = "sent"
    /\ LET mode == CheckRemoteVerdict(outcome)
       IN /\ vcache' = [vcache EXCEPT ![StoreKey(caller[c].key)] =
                          [mode |-> mode, inserted |-> now, accessed |-> now,
                           cause |-> outcome]]
          /\ caller' = [d \in Callers |->
                          IF d \in Served(c)
                          THEN [caller[d] EXCEPT !.pc = "done", !.res = mode,
                                                 !.outcome = outcome,
                                                 !.nreq = winReqs[caller[c].key]]
                          ELSE caller[d]]
    /\ wire' = [wire EXCEPT ![c] = NoRequest]
    /\ granted200' = IF outcome.kind = "response" /\ outcome.status = 200
                     THEN granted200 \cup {caller[c].key}
                     ELSE granted200
    /\ UNCHANGED <<now, ncalls, winReqs>>

\* check has returned its verdict; the task may call check again.
CheckDone(c) ==
    /\ caller[c].pc = "done"
    /\ caller' = [caller EXCEPT ![c] = IdleCaller]
    /\ UNCHANGED <<now, vcache, wire, ncalls, winReqs, granted200>>

\* Time passes.
Tick ==
    /\ now < MaxTime
    /\ now' = now + 1
    /\ UNCHANGED <<vcache, caller, wire, ncalls, winReqs, granted200>>

\* The keys checked in the model: the key of a model with and without a session,
\* the key of an object, the key of the server, and a key with a name and no
\* object; each differs from another in exactly one of its fields.
CheckKeys ==
    {[object |-> "tver", name |-> "panorama", session |-> "secret_key"],
     [object |-> "tver", name |-> "panorama", session |-> None],
     [object |-> "tver", name |-> None, session |-> "secret_key"],
     [object |-> None, name |-> None, session |-> "secret_key"],
     [object |-> None, name |-> "panorama", session |-> "secret_key"]}

NameOnlyKey == [object |-> None, name |-> "panorama", session |-> "secret_key"]
ModelKey == [object |-> "tver", name |-> "panorama", session |-> "secret_key"]
AnonymousKey == [object |-> "tver", name |-> "panorama", session |-> None]

(***************************************************************************)
(*                       Properties of the verdict cache                   *)
(***************************************************************************)

\* The calls that evaluate check_remote for the key.
Loaders(key) == {c \in Callers : caller[c].pc \in {"load", "sent"} /\ caller[c].key = key}

\* C2: among the calls of check(key) that begin while the cache holds no live
\* entry for the key, one evaluates check_remote: from the moment a call finds
\* the key missing with no other call in progress, the authority is sent at most
\* one request for the key, at most one call is the loader, and every waiting
\* call has a loader whose request serves it.
C2_SingleFlight ==
    \A key \in AccessKey :
        /\ winReqs[key] <= 1
        /\ Cardinality(Loaders(key)) <= 1
        /\ (\E c \in Callers : caller[c].pc = "wait" /\ caller[c].key = key)
               => Loaders(key) # {}
        /\ \A c \in Callers :
               (caller[c].pc = "done" /\ caller[c].how \in {"load", "wait"})
                   => caller[c].nreq = 1

\* C2 witness: two calls for one key found it missing, one loaded, the other
\* waited, both returned and the authority got one request.
C2_Witness ==
    /\ caller["t1"].pc = "done" /\ caller["t1"].how = "load"
    /\ caller["t2"].pc = "done" /\ caller["t2"].how = "wait"
    /\ caller["t1"].key = ModelKey /\ caller["t2"].key = ModelKey
    /\ caller["t1"].nreq = 1 /\ caller["t2"].nreq = 1
    /\ winReqs[ModelKey] = 1

\* C3: a call of check(key) that begins while the cache holds an entry of the
\* key expired neither by time to live nor by time to idle returns the stored
\* verdict in that step, and no request is sent for it.
C3_LiveEntryNoRequest ==
    [][\A c \in Callers, key \in CheckKeys :
          (/\ caller[c].pc = "idle"
           /\ caller'[c].pc # "idle"
           /\ caller'[c].key = key
           /\ vcache[key] # NoEntry
           /\ now - vcache[key].inserted < TTL
           /\ now - vcache[key].accessed < TTI)
          => /\ caller'[c].pc = "done"
             /\ caller'[c].res = vcache[key].mode
             /\ wire' = wire
             /\ winReqs' = winReqs]_accessVars

\* C3 witness: a call has returned a granted verdict from the cache, and the
\* authority had a single request for the key.
C3_Witness ==
    \E c \in Callers :
        /\ caller[c].pc = "done"
        /\ caller[c].how = "hit"
        /\ caller[c].res = Granted
        /\ winReqs[caller[c].key] = 1

\* C4: the verdict of a load is Granted when the authority answered with status
\* 200 and Denied when it answered with another status or the request failed;
\* check returns nothing but Granted or Denied, and the cache stores nothing else.
C4_VerdictOfOutcome ==
    /\ \A c \in Callers :
          caller[c].pc = "done" =>
              /\ caller[c].res \in {Granted, Denied}
              /\ caller[c].how \in {"load", "wait"} =>
                    /\ caller[c].outcome \in Outcomes
                    /\ caller[c].res = Granted
                           <=> (caller[c].outcome.kind = "response"
                                /\ caller[c].outcome.status = 200)
    /\ \A key \in AccessKey :
          vcache[key] # NoEntry =>
              /\ vcache[key].mode \in {Granted, Denied}
              /\ vcache[key].mode = Granted
                     <=> (vcache[key].cause.kind = "response"
                          /\ vcache[key].cause.status = 200)

\* C4 witness: a load answered 404 and a load that failed both returned Denied.
C4_Witness ==
    /\ caller["t1"].pc = "done" /\ caller["t1"].how = "load"
    /\ caller["t1"].outcome = [kind |-> "response", status |-> 404]
    /\ caller["t1"].res = Denied
    /\ caller["t2"].pc = "done" /\ caller["t2"].how = "load"
    /\ caller["t2"].outcome.kind = "error"
    /\ caller["t2"].res = Denied

\* C5: when the request of a load fails, Denied is stored for the key as a live
\* entry; a call of check for a key whose live entry comes from a failed request
\* returns Denied in that step and no request is sent.
C5_FailureIsCached ==
    [][\A c \in Callers :
          /\ (/\ caller[c].pc = "sent"
              /\ caller'[c].pc = "done"
              /\ caller'[c].outcome.kind = "error")
             => /\ vcache'[caller[c].key].mode = Denied
                /\ vcache'[caller[c].key].cause.kind = "error"
                /\ vcache'[caller[c].key].inserted = now
                /\ vcache'[caller[c].key].accessed = now
          /\ \A key \in CheckKeys :
                (/\ caller[c].pc = "idle"
                 /\ caller'[c].pc # "idle"
                 /\ caller'[c].key = key
                 /\ vcache[key] # NoEntry
                 /\ vcache[key].cause.kind = "error"
                 /\ now - vcache[key].inserted < TTL
                 /\ now - vcache[key].accessed < TTI)
                => /\ caller'[c].pc = "done"
                   /\ caller'[c].res = Denied
                   /\ wire' = wire
                   /\ winReqs' = winReqs]_accessVars

\* C5 witness: after a failed request, a second call for the key has returned
\* Denied from the cache, the authority having had one request for the key.
C5_Witness ==
    \E c \in Callers :
        /\ caller[c].pc = "done"
        /\ caller[c].how = "hit"
        /\ caller[c].res = Denied
        /\ vcache[caller[c].key].cause.kind = "error"
        /\ winReqs[caller[c].key] = 1

\* C6: check(key) returns Granted, and the cache holds Granted for a key, only
\* if the authority answered 200 to a load of exactly that key.
C6_ClosedGate ==
    /\ \A c \in Callers :
          (caller[c].pc = "done" /\ caller[c].res = Granted)
              => caller[c].key \in granted200
    /\ \A key \in AccessKey :
          (vcache[key] # NoEntry /\ vcache[key].mode = Granted) => key \in granted200

\* C6 witness: a session was granted a model and the same model was denied to
\* the request without a session.
C6_Witness ==
    /\ \E c \in Callers : /\ caller[c].pc = "done"
                          /\ caller[c].key = ModelKey
                          /\ caller[c].res = Granted
    /\ \E c \in Callers : /\ caller[c].pc = "done"
                          /\ caller[c].key = AnonymousKey
                          /\ caller[c].res = Denied
    /\ granted200 = {ModelKey}
    /\ vcache[ModelKey].mode = Granted
    /\ vcache[AnonymousKey].mode = Denied

\* C25: the request a load has sent is determined by its key: the url is the
\* server alone when the object is absent (the name present or not), the server
\* and the object when only the name is absent, the server, the object and the
\* name when both are present; the Cookie header is there exactly when the
\* session is present, and is cookie_name=value.
C25_RequestOfKey ==
    \A c \in Callers :
        caller[c].pc = "sent" =>
            /\ caller[c].key.object = None => wire[c].url = <<"server">>
            /\ (caller[c].key.object # None /\ caller[c].key.name = None) =>
                   wire[c].url = <<"server", caller[c].key.object>>
            /\ (caller[c].key.object # None /\ caller[c].key.name # None) =>
                   wire[c].url = <<"server", caller[c].key.object, caller[c].key.name>>
            /\ caller[c].key.session = None <=> wire[c].cookie = <<>>
            /\ caller[c].key.session # None =>
                   wire[c].cookie = <<"PHPSESSID", caller[c].key.session>>
            /\ \A d \in Callers :
                   (caller[d].pc = "sent" /\ caller[d].key = caller[c].key) =>
                       wire[d] = wire[c]

\* C25 witness: the request of a key with a name and no object, sent to the
\* server's own url with the cookie, and the request of a key without session,
\* sent without one.
C25_Witness ==
    \E c, d \in Callers :
        /\ caller[c].pc = "sent"
        /\ caller[c].key = NameOnlyKey
        /\ wire[c] = [url |-> <<"server">>, cookie |-> <<"PHPSESSID", "secret_key">>]
        /\ caller[d].pc = "sent"
        /\ caller[d].key = AnonymousKey
        /\ wire[d] = [url |-> <<"server", "tver", "panorama">>, cookie |-> <<>>]

\* The entry of the key has expired by time to live or by time to idle.
Expired(key) ==
    /\ vcache[key] # NoEntry
    /\ (now - vcache[key].inserted >= TTL \/ now - vcache[key].accessed >= TTI)

\* C26: a call of check returns the stored verdict only when less than the time
\* to live has passed since the entry was inserted and less than the time to
\* idle since it was last read, and the read leaves the insertion time as it
\* is; a call that finds the entry expired loads (or waits for the load in
\* flight), the load sends a request, and its end stores the new verdict, dated
\* now, in place of the old entry.
C26_VerdictExpiry ==
    [][/\ \A c \in Callers, key \in CheckKeys :
             (/\ caller[c].pc = "idle"
              /\ caller'[c].pc # "idle"
              /\ caller'[c].key = key)
             => /\ caller'[c].how = "hit" =>
                       /\ vcache[key] # NoEntry
                       /\ now - vcache[key].inserted < TTL
                       /\ now - vcache[key].accessed < TTI
                       /\ caller'[c].pc = "done"
                       /\ caller'[c].res = vcache[key].mode
                       /\ vcache'[key].inserted = vcache[key].inserted
                       /\ vcache'[key].mode = vcache[key].mode
                /\ Expired(key) =>
                       /\ caller'[c].pc \in {"load", "wait"}
                       /\ caller'[c].pc = "wait" =>
                              \E d \in Callers : /\ caller[d].pc \in {"load", "sent"}
                                                  /\ caller[d].key = key
                       /\ vcache' = vcache
       /\ \A c \in Callers :
             (caller[c].pc = "load" /\ caller'[c].pc # "load") =>
                 /\ caller'[c].pc = "sent"
                 /\ wire'[c] = CheckRemoteRequest(caller[c].key)
                 /\ winReqs'[caller[c].key] = winReqs[caller[c].key] + 1
       /\ \A c \in Callers :
             (caller[c].pc = "sent" /\ caller'[c].pc # "sent") =>
                 vcache'[caller[c].key] =
                     [mode |-> caller'[c].res, inserted |-> now, accessed |-> now,
                      cause |-> caller'[c].outcome]]_accessVars

\* C26 witness: the Granted of time 0 was read again before it expired, and the
\* check made at its time to live, less than the time to idle after that read,
\* sent a new request, whose Denied replaced it.
C26_Witness ==
    \E c, d \in Callers :
        /\ caller[d].pc = "done" /\ caller[d].how = "hit" /\ caller[d].res = Granted
        /\ caller[c].pc = "done" /\ caller[c].how = "load" /\ caller[c].res = Denied
        /\ caller[c].key = ModelKey /\ caller[d].key = ModelKey
        /\ ModelKey \in granted200
        /\ vcache[ModelKey].mode = Denied
        /\ vcache[ModelKey].inserted = TTL
        /\ now = TTL

\* C24: at every step at most one call evaluates check_remote for a key; the
\* step that ends the load stores its verdict and returns that verdict to the
\* loader and to every call that waited for the key, and a waiting call
\* returns in no other step.
C24_OneLoadOneVerdict ==
    [][/\ \A key \in AccessKey :
             Cardinality({c \in Callers : /\ caller'[c].pc \in {"load", "sent"}
                                          /\ caller'[c].key = key}) <= 1
       /\ \A c \in Callers :
             (caller[c].pc = "sent" /\ caller'[c].pc # "sent") =>
                 /\ caller'[c].pc = "done"
                 /\ vcache'[caller[c].key].mode = caller'[c].res
                 /\ vcache'[caller[c].key].inserted = now
                 /\ \A d \in Callers :
                        (caller[d].pc = "wait" /\ caller[d].key = caller[c].key) =>
                            /\ caller'[d].pc = "done"
                            /\ caller'[d].res = caller'[c].res
       /\ \A d \in Callers :
             (caller[d].pc = "wait" /\ caller'[d].pc # "wait") =>
                 \E c \in Callers : /\ caller[c].pc = "sent"
                                     /\ caller'[c].pc = "done"
                                     /\ caller[c].key = caller[d].key]_accessVars

\* C24 witness: a call that waited for the load of another has returned the
\* Granted that load produced, which the cache holds.
C24_Witness ==
    \E c, d \in Callers :
        /\ c # d
        /\ caller[c].pc = "done" /\ caller[c].how = "load"
        /\ caller[d].pc = "done" /\ caller[d].how = "wait"
        /\ caller[c].key = caller[d].key
        /\ caller[c].res = Granted /\ caller[d].res = Granted
        /\ vcache[caller[c].key].mode = Granted
        /\ vcache[caller[c].key].inserted = now

(***************************************************************************)
(*                           cache.rs: body cache                          *)
(*                                                                         *)
(* FileCache keeps a moka dash::Cache<PathBuf, Content> weighed by the     *)
(* length of the content and bounded by the configured size, a queue of    *)
(* paths and a loader task.  The cache is a library: get, insert and       *)
(* invalidate are atomic operations on it, and an insert that takes the    *)
(* total weight over the capacity evicts entries (possibly the new one)    *)
(* until the weight fits.  Lengths are counted in GiB, so that a length    *)
(* fits in a u32 when it is at most 3 whole units.  Calls of               *)
(* open_with_cache are taken one at a time; the loader task and the        *)
(* changes of the files run concurrently with the call in progress.        *)
(***************************************************************************)

\* Bounds of the body cache model.
MaxWrites == 1         \* changes ever made to the files by the outside world
MaxOpens == 3          \* calls of open_with_cache ever begun
QueueCap == 2          \* capacity of the loader queue (500 in the source), scaled
CacheSize == 1         \* a configured size of the cache below u32::MAX, in units
BigCacheSize == 4      \* a configured size of the cache above u32::MAX, in units

\* u32::MAX in whole units.
U32Max == 3

Paths == {"a", "b"}
Openers == {"r1"}

\* The lengths the files on disk take.
Lens == {1, 2}

\* The lengths a token may state: those of the files, and one above u32::MAX.
TokenLens == Lens \cup {U32Max + 1}

\* FileCacheConfig.size, converted to the unit of the lengths.
CacheSizes == {CacheSize, BigCacheSize}

\* struct Meta { len, modified, is_dir }; the paths of the model are files.
MakeMeta(len, modified) == [len |-> len, modified |-> modified, is_dir |-> FALSE]

\* The freshness tokens a caller may present.
Metas == {MakeMeta(len, modified) : len \in TokenLens, modified \in 0..MaxWrites}

NoFile == [len |-> 0, modified |-> -1, is_dir |-> FALSE]
NoMeta == NoFile
NoBody == [meta |-> NoMeta, bytes |-> 0]

\* The weigher of FileCache::new: the length of the content, at most u32::MAX.
Weigh(body) == IF body.meta.len > U32Max THEN U32Max ELSE body.meta.len

RECURSIVE TotalWeight(_, _)
TotalWeight(st, ps) ==
    IF ps = {} THEN 0
    ELSE LET p == CHOOSE x \in ps : TRUE
         IN (IF st[p] = NoBody THEN 0 ELSE Weigh(st[p])) + TotalWeight(st, ps \ {p})

\* The store without the entries of the paths in gone.
Evict(st, gone) == [p \in Paths |-> IF p \in gone THEN NoBody ELSE st[p]]

\* The stores an insert may leave in a cache of capacity cap: the store with the
\* new entry when its weight fits in the capacity; otherwise that store less
\* some entries, the weight fitting.
AfterInsert(st, path, body, cap) ==
    LET full == [st EXCEPT ![path] = body]
    IN IF TotalWeight(full, Paths) <= cap
       THEN {full}
       ELSE {Evict(full, gone) :
                gone \in {g \in SUBSET {p \in Paths : full[p] # NoBody} :
                            /\ g # {}
                            /\ TotalWeight(Evict(full, g), Paths) <= cap}}

NoResult == [variant |-> "none", meta |-> NoMeta, bytes |-> 0]

\* A request outside open_with_cache.  found, submitted and accepted are
\* history: what cache.get gave the call (hit, mismatch or miss), whether the
\* call submitted its path to the loader, and whether the queue took it.
IdleOpener == [pc |-> "idle", path |-> "a", meta |-> NoMeta, res |-> NoResult,
               found |-> "none", submitted |-> FALSE, accepted |-> FALSE]
\* The loader task waiting in recv.  last is history: what became of the path
\* the task handled last ("skipped", "loaded", "dropped", or "panicked" for the
\* task that ended in the assertion), and path is then that path.
IdleLoader == [pc |-> "recv", path |-> "a", meta |-> NoMeta, last |-> "none"]

\* The loader task back in recv after it handled path with the given outcome.
Handled(path, outcome) == [IdleLoader EXCEPT !.path = path, !.last = outcome]

VARIABLES
    fs,           \* the files on disk: per path, its length and modification stamp
    nwrites,      \* number of changes made to the files
    had,          \* history: per path, every Meta its file has had
    size,         \* FileCache.size, 0 before FileCache::new
    store,        \* FileCache.cache: per path, the Content held (its meta and byte count)
    queue,        \* the paths queued in the mpsc channel of FileCache
    loader,       \* the loader task: its position, the path and the meta it holds
    opener,       \* per request: its position in open_with_cache, its arguments, its result
    nopens        \* number of calls of open_with_cache begun

cacheVars == <<fs, nwrites, had, size, store, queue, loader, opener, nopens>>

\* The process before FileCache::new.  The files exist.
InitCache ==
    /\ fs = [p \in Paths |-> MakeMeta(IF p = "a" THEN 1 ELSE 2, 0)]
    /\ nwrites = 0
    /\ had = [p \in Paths |-> {MakeMeta(IF p = "a" THEN 1 ELSE 2, 0)}]
    /\ size = 0
    /\ store = [p \in Paths |-> NoBody]
    /\ queue = <<>>
    /\ loader = IdleLoader
    /\ opener = [r \in Openers |-> IdleOpener]
    /\ nopens = 0

\* FileCache::new(config): an empty cache of the configured size, an empty
\* queue, the loader task waiting in recv.
FileCacheNew(sz) ==
    /\ size = 0
    /\ size' = sz
    /\ store' = [p \in Paths |-> NoBody]
    /\ queue' = <<>>
    /\ loader' = IdleLoader
    /\ UNCHANGED <<fs, nwrites, had, opener, nopens>>

\* The outside world writes the file: a new length and a later modification time.
FileWrite(path, len) ==
    /\ nwrites < MaxWrites
    /\ nwrites' = nwrites + 1
    /\ fs' = [fs EXCEPT ![path] = MakeMeta(len, nwrites + 1)]
    /\ had' = [had EXCEPT ![path] = @ \cup {MakeMeta(len, nwrites + 1)}]
    /\ UNCHANGED <<size, store, queue, loader, opener, nopens>>

\* The outside world removes the file.
FileRemove(path) ==
    /\ nwrites < MaxWrites
    /\ fs[path] # NoFile
    /\ nwrites' = nwrites + 1
    /\ fs' = [fs EXCEPT ![path] = NoFile]
    /\ UNCHANGED had
    /\ UNCHANGED <<size, store, queue, loader, opener, nopens>>

\* The opener of a call of open_with_cache(path, meta) after cache.get.
Called(pc, path, meta, found) ==
    [IdleOpener EXCEPT !.pc = pc, !.path = path, !.meta = meta, !.found = found]

\* The opener of a call that returns Cached(cnt).
ReturnCached(path, meta, cnt, found) ==
    [Called("done", path, meta, found) EXCEPT
        !.res = [variant |-> "Cached", meta |-> cnt.meta, bytes |-> cnt.bytes]]

\* A variant of the lookup of open_with_cache that returns the content held for
\* the path without comparing its meta with the token.
OpenLookupNoCompare(r, path, meta) ==
    /\ size # 0
    /\ opener[r].pc = "idle"
    /\ nopens < MaxOpens
    /\ nopens' = nopens + 1
    /\ IF store[path] # NoBody
       THEN opener' = [opener EXCEPT ![r] = ReturnCached(path, meta, store[path], "hit")]
       ELSE opener' = [opener EXCEPT ![r] = Called("open", path, meta, "miss")]
    /\ UNCHANGED <<fs, nwrites, had, size, store, queue, loader>>

\* A variant of the lookup of open_with_cache with the comparison inverted:
\* content is returned when its meta differs from the token.
OpenLookupInverted(r, path, meta) ==
    /\ size # 0
    /\ opener[r].pc = "idle"
    /\ nopens < MaxOpens
    /\ nopens' = nopens + 1
    /\ IF store[path] # NoBody /\ store[path].meta # meta
       THEN opener' = [opener EXCEPT ![r] = ReturnCached(path, meta, store[path], "hit")]
       ELSE IF store[path] # NoBody
       THEN opener' = [opener EXCEPT ![r] = Called("invalidate", path, meta, "mismatch")]
       ELSE opener' = [opener EXCEPT ![r] = Called("open", path, meta, "miss")]
    /\ UNCHANGED <<fs, nwrites, had, size, store, queue, loader>>

\* A variant of the lookup of open_with_cache over a cache whose entries end
\* with the read that returns them.
OpenLookupExpiring(r, path, meta) ==
    /\ size # 0
    /\ opener[r].pc = "idle"
    /\ nopens < MaxOpens
    /\ nopens' = nopens + 1
    /\ IF store[path] # NoBody /\ store[path].meta = meta
       THEN /\ opener' = [opener EXCEPT ![r] = ReturnCached(path, meta, store[path], "hit")]
            /\ store' = [store EXCEPT ![path] = NoBody]
       ELSE /\ UNCHANGED store
            /\ IF store[path] # NoBody
               THEN opener' = [opener EXCEPT ![r] = Called("invalidate", path, meta, "mismatch")]
               ELSE opener' = [opener EXCEPT ![r] = Called("open", path, meta, "miss")]
    /\ UNCHANGED <<fs, nwrites, had, size, queue, loader>>

\* open_with_cache, cache.get(path) and the comparison of the metas: content
\* with the meta of the token is returned as Cached; content with another meta
\* is to be invalidated; without content the file is to be opened.
OpenLookup(r, path, meta) ==
    /\ size # 0
    /\ opener[r].pc = "idle"
    /\ nopens < MaxOpens
    /\ nopens' = nopens + 1
    /\ IF store[path] # NoBody /\ store[path].meta = meta
       THEN opener' = [opener EXCEPT ![r] = ReturnCached(path, meta, store[path], "hit")]
       ELSE IF store[path] # NoBody
       THEN opener' = [opener EXCEPT ![r] = Called("invalidate", path, meta, "mismatch")]
       ELSE opener' = [opener EXCEPT ![r] = Called("open", path, meta, "miss")]
    /\ UNCHANGED <<fs, nwrites, had, size, store, queue, loader>>

\* A variant of the invalidation of open_with_cache that leaves the entry.
OpenInvalidateSkip(r) ==
    /\ opener[r].pc = "invalidate"
    /\ opener' = [opener EXCEPT ![r].pc = "open"]
    /\ UNCHANGED <<fs, nwrites, had, size, store, queue, loader, nopens>>

\* open_with_cache, cache.invalidate(path): whatever the cache holds for the
\* path by now is removed.
OpenInvalidate(r) ==
    /\ opener[r].pc = "invalidate"
    /\ store' = [store EXCEPT ![opener[r].path] = NoBody]
    /\ opener' = [opener EXCEPT ![r].pc = "open"]
    /\ UNCHANGED <<fs, nwrites, had, size, queue, loader, nopens>>

\* A variant of the eligibility test that excludes a length equal to the size.
EligibleBelowSize(len, sz) == len < sz /\ len <= U32Max

\* open_with_cache, the test before cache.insert:
\* len <= cache.size() && len <= u32::MAX as u64.
Eligible(len, sz) == len <= sz /\ len <= U32Max

\* A variant of FileCache::insert over a queue without capacity.
TrySendUnbounded(q, path) ==
    IF loader.pc # "dead" THEN Append(q, path) ELSE q

\* FileCache::insert: try_send fails when the queue is full or the loader task
\* has ended; the caller logs the error.
TrySend(q, path) ==
    IF Len(q) < QueueCap /\ loader.pc # "dead" THEN Append(q, path) ELSE q

\* A synchronous open_with_cache: after a miss it reads the file into the store
\* itself before it returns.
OpenFileLoads(r) ==
    /\ opener[r].pc = "open"
    /\ IF fs[opener[r].path] = NoFile
       THEN /\ opener' = [opener EXCEPT ![r].pc = "done",
                                        ![r].res = [variant |-> "Err", meta |-> NoMeta,
                                                    bytes |-> 0]]
            /\ UNCHANGED store
       ELSE /\ opener' = [opener EXCEPT ![r].pc = "done",
                                        ![r].res = [variant |-> "File",
                                                    meta |-> opener[r].meta,
                                                    bytes |-> fs[opener[r].path].len]]
            /\ store' = [store EXCEPT ![opener[r].path] =
                            [meta |-> fs[opener[r].path],
                             bytes |-> fs[opener[r].path].len]]
    /\ UNCHANGED <<fs, nwrites, had, size, queue, loader, nopens>>

\* A variant of open_with_cache that submits the path to the loader before it
\* opens the file.
OpenFileSubmitFirst(r) ==
    /\ opener[r].pc = "open"
    /\ LET submit == Eligible(opener[r].meta.len, size)
           sent == TrySend(queue, opener[r].path)
       IN /\ queue' = IF submit THEN sent ELSE queue
          /\ IF fs[opener[r].path] = NoFile
             THEN opener' = [opener EXCEPT ![r].pc = "done",
                                           ![r].res = [variant |-> "Err", meta |-> NoMeta,
                                                       bytes |-> 0]]
             ELSE opener' = [opener EXCEPT ![r].pc = "done",
                                           ![r].res = [variant |-> "File",
                                                       meta |-> opener[r].meta,
                                                       bytes |-> fs[opener[r].path].len],
                                           ![r].submitted = submit,
                                           ![r].accepted = submit /\ sent # queue]
    /\ UNCHANGED <<fs, nwrites, had, size, store, loader, nopens>>

\* open_with_cache from Self::open on: a missing file gives the I/O error;
\* otherwise the path is submitted to the loader when the length of the token
\* is at most the size of the cache and at most u32::MAX, and File(f, meta) is
\* returned.
OpenFile(r) ==
    /\ opener[r].pc = "open"
    /\ IF fs[opener[r].path] = NoFile
       THEN /\ opener' = [opener EXCEPT ![r].pc = "done",
                                        ![r].res = [variant |-> "Err", meta |-> NoMeta,
                                                    bytes |-> 0]]
            /\ UNCHANGED queue
       ELSE LET submit == Eligible(opener[r].meta.len, size)
                sent == TrySend(queue, opener[r].path)
            IN /\ opener' = [opener EXCEPT ![r].pc = "done",
                                           ![r].res = [variant |-> "File",
                                                       meta |-> opener[r].meta,
                                                       bytes |-> fs[opener[r].path].len],
                                           ![r].submitted = submit,
                                           ![r].accepted = submit /\ sent # queue]
               /\ queue' = IF submit THEN sent ELSE queue
    /\ UNCHANGED <<fs, nwrites, had, size, store, loader, nopens>>

\* open_with_cache has returned; the request is over.
OpenReturn(r) ==
    /\ opener[r].pc = "done"
    /\ opener' = [opener EXCEPT ![r] = IdleOpener]
    /\ UNCHANGED <<fs, nwrites, had, size, store, queue, loader, nopens>>

\* A loader that does not look in the cache: every path it takes is read.
LoaderRecvNoCheck ==
    /\ loader.pc = "recv"
    /\ queue # <<>>
    /\ queue' = Tail(queue)
    /\ loader' = [pc |-> "open", path |-> Head(queue), meta |-> NoMeta, last |-> "none"]
    /\ UNCHANGED <<fs, nwrites, had, size, store, opener, nopens>>

\* The loader task, rx.recv().await and the check of the cache: a path the
\* cache holds content for is skipped.
LoaderRecv ==
    /\ loader.pc = "recv"
    /\ queue # <<>>
    /\ queue' = Tail(queue)
    /\ loader' = IF store[Head(queue)] # NoBody
                 THEN Handled(Head(queue), "skipped")
                 ELSE [pc |-> "open", path |-> Head(queue), meta |-> NoMeta,
                       last |-> "none"]
    /\ UNCHANGED <<fs, nwrites, had, size, store, opener, nopens>>

\* Content::from_file, File::open and f.metadata(): a missing file is an error,
\* which the loader logs before it takes the next path.
LoaderOpen ==
    /\ loader.pc = "open"
    /\ loader' = IF fs[loader.path] = NoFile
                 THEN Handled(loader.path, "dropped")
                 ELSE [loader EXCEPT !.pc = "read", !.meta = fs[loader.path]]
    /\ UNCHANGED <<fs, nwrites, had, size, store, queue, opener, nopens>>

\* The number of bytes read_to_end reads from the open file: its length by now
\* (a file removed meanwhile keeps the content it had when it was opened).
BytesRead == IF fs[loader.path] = NoFile THEN loader.meta.len ELSE fs[loader.path].len

\* A from_file without the assertion: whatever was read becomes the body.
LoaderReadNoAssert(ok) ==
    /\ loader.pc = "read"
    /\ loader' = Handled(loader.path, "loaded")
    /\ store' \in AfterInsert(store, loader.path,
                              [meta |-> loader.meta, bytes |-> BytesRead], size)
    /\ UNCHANGED <<fs, nwrites, had, size, queue, opener, nopens>>

\* A loader that queues the path again when reading its file fails.
LoaderReadRequeue(ok) ==
    /\ loader.pc = "read"
    /\ IF ~ok
       THEN /\ loader' = Handled(loader.path, "dropped")
            /\ queue' = Append(queue, loader.path)
            /\ UNCHANGED store
       ELSE /\ UNCHANGED queue
            /\ IF BytesRead # loader.meta.len
               THEN /\ loader' = [Handled(loader.path, "panicked") EXCEPT !.pc = "dead"]
                    /\ UNCHANGED store
               ELSE /\ loader' = Handled(loader.path, "loaded")
                    /\ store' \in AfterInsert(store, loader.path,
                                              [meta |-> loader.meta, bytes |-> BytesRead],
                                              size)
    /\ UNCHANGED <<fs, nwrites, had, size, opener, nopens>>

\* Content::from_file, read_to_end and the assertion, then cache_rx.insert: a
\* read that fails (ok is FALSE) is an error, which the loader logs before it
\* takes the next path; when the bytes read are not meta.len of them the
\* assertion fails and the task ends; otherwise the content is inserted.
LoaderRead(ok) ==
    /\ loader.pc = "read"
    /\ IF ~ok
       THEN /\ loader' = Handled(loader.path, "dropped")
            /\ UNCHANGED store
       ELSE IF BytesRead # loader.meta.len
       THEN /\ loader' = [Handled(loader.path, "panicked") EXCEPT !.pc = "dead"]
            /\ UNCHANGED store
       ELSE /\ loader' = Handled(loader.path, "loaded")
            /\ store' \in AfterInsert(store, loader.path,
                                      [meta |-> loader.meta, bytes |-> BytesRead], size)
    /\ UNCHANGED <<fs, nwrites, had, size, queue, opener, nopens>>

(***************************************************************************)
(*                        Properties of the body cache                     *)
(***************************************************************************)

\* C1: open_with_cache(path, meta) returns Cached(content) only with content
\* whose meta is the token; every other call returns File or an I/O error.
C1_CachedMatchesToken ==
    \A r \in Openers :
        opener[r].pc = "done" =>
            /\ opener[r].res.variant \in {"Cached", "File", "Err"}
            /\ opener[r].res.variant = "Cached" => opener[r].res.meta = opener[r].meta

\* C1 witness: a call returned Cached with content whose meta is its token, the
\* file having changed on disk since the loader read it.
C1_Witness ==
    \E r \in Openers :
        /\ opener[r].pc = "done"
        /\ opener[r].res.variant = "Cached"
        /\ opener[r].res.meta = opener[r].meta
        /\ store[opener[r].path].meta = opener[r].meta
        /\ fs[opener[r].path] # opener[r].meta

\* A step of the loader from the stat to the read keeps the meta the file has,
\* and a step that ends a read leaves for the path either nothing or a body
\* with that meta and as many bytes.
LoadKeepsStat ==
    /\ (loader.pc = "open" /\ loader'.pc = "read") =>
           loader'.meta = fs[loader.path]
    /\ (loader.pc = "read" /\ loader'.pc = "recv") =>
           store'[loader.path] \in
               {NoBody, [meta |-> loader.meta, bytes |-> loader.meta.len]}

\* A step that begins a call of open_with_cache for a path whose entry has the
\* meta of the token ends the call with Cached and the body of that entry.
HitIsServed ==
    \A r \in Openers :
        (/\ opener[r].pc = "idle"
         /\ opener'[r].pc # "idle"
         /\ store[opener'[r].path] # NoBody
         /\ store[opener'[r].path].meta = opener'[r].meta)
        => /\ opener'[r].pc = "done"
           /\ opener'[r].res.variant = "Cached"
           /\ opener'[r].res.meta = store[opener'[r].path].meta
           /\ opener'[r].res.bytes = store[opener'[r].path].bytes
           /\ store' = store

\* C11: a body the loader inserted carries the meta the file had when the loader
\* stat'd it, with as many bytes; while the entry stays in the store, a call of
\* open_with_cache for the path with that meta as token returns Cached with
\* that body.
C11_LoadedIsServed == [][LoadKeepsStat /\ HitIsServed]_cacheVars

\* C11 witness: a path was submitted, taken by the queue and loaded, and a call
\* with the meta of the file returned Cached.
C11_Witness ==
    \E r \in Openers :
        /\ opener[r].pc = "done"
        /\ opener[r].res.variant = "Cached"
        /\ opener[r].meta = fs[opener[r].path]
        /\ store[opener[r].path] = [meta |-> fs[opener[r].path],
                                    bytes |-> fs[opener[r].path].len]
        /\ nopens = MaxOpens

\* C12 as stated: a call that found content with another meta than its token
\* returns the disk variant, and its path is queued again when eligible.
C12_MismatchReturnsDisk ==
    \A r \in Openers :
        (opener[r].pc = "done" /\ opener[r].found = "mismatch") =>
            /\ opener[r].res.variant = "File"
            /\ (opener[r].meta.len <= size /\ opener[r].meta.len <= U32Max) =>
                   opener[r].accepted

\* C12 amended: a call that finds content with another meta than its token
\* removes the entry of its path; then, when the file opens, it returns the disk
\* variant with the token and submits the path when eligible, the queue taking
\* it when it has room and the loader runs; when the file does not open it
\* returns the I/O error and submits nothing.  The loader loads a path it
\* dequeues while the store has no entry for it, and a later call with the meta
\* the loader read returns Cached while the entry stays.
C12_MismatchInvalidates ==
    [][/\ \A r \in Openers :
              /\ (/\ opener[r].pc = "idle"
                  /\ opener'[r].pc # "idle"
                  /\ store[opener'[r].path] # NoBody
                  /\ store[opener'[r].path].meta # opener'[r].meta)
                 => opener'[r].pc = "invalidate"
              /\ (opener[r].pc = "invalidate" /\ opener'[r].pc # "invalidate")
                 => /\ store'[opener[r].path] = NoBody
                    /\ \A p \in Paths \ {opener[r].path} : store'[p] = store[p]
                    /\ opener'[r].pc = "open"
              /\ (/\ opener[r].pc = "open"
                  /\ opener[r].found = "mismatch"
                  /\ opener'[r].pc = "done")
                 => IF fs[opener[r].path] = NoFile
                    THEN /\ opener'[r].res.variant = "Err"
                         /\ queue' = queue
                    ELSE /\ opener'[r].res.variant = "File"
                         /\ opener'[r].res.meta = opener[r].meta
                         /\ queue' =
                              IF /\ opener[r].meta.len <= size
                                 /\ opener[r].meta.len <= U32Max
                                 /\ Len(queue) < QueueCap
                                 /\ loader.pc # "dead"
                              THEN Append(queue, opener[r].path)
                              ELSE queue
       /\ (loader.pc = "recv" /\ queue # <<>> /\ queue' = Tail(queue)
              /\ store[Head(queue)] = NoBody)
              => (loader'.pc = "open" /\ loader'.path = Head(queue))
       /\ LoadKeepsStat
       /\ HitIsServed]_cacheVars

\* C12 witness: a call found content with another meta, returned the disk
\* variant and had its path queued, and the loader has since loaded the file
\* with its meta of now.
C12_Witness ==
    \E r \in Openers :
        /\ opener[r].pc = "done"
        /\ opener[r].found = "mismatch"
        /\ opener[r].res.variant = "File"
        /\ opener[r].accepted
        /\ store[opener[r].path] # NoBody
        /\ store[opener[r].path].meta = fs[opener[r].path]

\* C13: a call whose file opened has submitted its path to the loader queue
\* exactly when the length of its token is at most the size of the cache and at
\* most u32::MAX; the queue took the path only if it was submitted.
C13_EligibilityBoundary ==
    \A r \in Openers :
        (opener[r].pc = "done" /\ opener[r].res.variant = "File") =>
            /\ opener[r].submitted <=>
                   (opener[r].meta.len <= size /\ opener[r].meta.len <= U32Max)
            /\ opener[r].meta.len > size => ~opener[r].accepted
            /\ opener[r].meta.len > U32Max => ~opener[r].accepted
            /\ opener[r].accepted => opener[r].submitted

\* C13 witness: after a miss the file opened, the length of the token is
\* exactly the size of the cache, and the path was submitted and queued.
C13_Witness ==
    \E r \in Openers :
        /\ opener[r].pc = "done"
        /\ opener[r].found = "miss"
        /\ opener[r].res.variant = "File"
        /\ opener[r].meta.len = size
        /\ opener[r].submitted
        /\ opener[r].accepted
        /\ queue = <<opener[r].path>>

\* C23: every body in the store has as many bytes as its meta records, the
\* file having changed between the stat and the read or not: a read of another
\* count ends the task in the assertion and produces no body.
C23_BytesMatchMeta ==
    /\ \A path \in Paths :
           store[path] # NoBody => store[path].bytes = store[path].meta.len
    /\ \A r \in Openers :
           (opener[r].pc = "done" /\ opener[r].res.variant = "Cached") =>
               opener[r].res.bytes = opener[r].res.meta.len

\* C23 witness: the file changed its length between the stat and the read of a
\* load, which produced no body, while the store holds the body of another load.
C23_Witness ==
    /\ loader.pc = "dead"
    /\ \E path \in Paths : store[path] # NoBody

\* A step that shortens the queue is the loader, waiting in recv, taking the
\* path at the front; with an entry for that path in the store the task is back
\* in recv at once, the store as it was, and without one it goes on to open the
\* file of that path.
LoaderTakesHead ==
    Len(queue') < Len(queue) =>
        /\ loader.pc = "recv"
        /\ queue' = Tail(queue)
        /\ loader'.path = Head(queue)
        /\ IF store[Head(queue)] # NoBody
           THEN loader'.pc = "recv" /\ loader'.last = "skipped" /\ store' = store
           ELSE loader'.pc = "open"

\* C31: the loader takes the queued paths from the front of the queue, and only
\* while it handles none; it skips a path the store has an entry for, leaving
\* the store as it is; while it opens or reads the file of a path the store
\* has no entry for that path, so a path is not read while its entry stays.
C31_LoaderSkipsPresent ==
    /\ [][LoaderTakesHead]_cacheVars
    /\ [](loader.pc \in {"open", "read"} => store[loader.path] = NoBody)

\* C31 witness: the path was queued twice; the loader loaded the file for the
\* first and skipped the second, the queue being empty again.
C31_Witness ==
    /\ loader.pc = "recv"
    /\ loader.last = "skipped"
    /\ store[loader.path] = [meta |-> fs[loader.path], bytes |-> fs[loader.path].len]
    /\ nopens = 2
    /\ nwrites = 0
    /\ queue = <<>>

\* A step in which the loader fails to open or to read the file of the path it
\* holds leaves the store and the queue as they are and the task back in recv.
LoaderDropsFailed ==
    (loader.pc \in {"open", "read"} /\ loader'.last = "dropped") =>
        /\ store' = store
        /\ queue' = queue
        /\ loader'.pc = "recv"
        /\ loader'.path = loader.path

\* C32: a path whose file the loader fails to open or to read is dropped: the
\* store and the queue are left as they are and the loader is back in recv,
\* where it takes the next queued path.
C32_FailedLoadDropped ==
    /\ [][LoaderDropsFailed]_cacheVars
    /\ []((loader.last = "dropped" /\ queue # <<>>) => ENABLED LoaderRecv)

\* C32 witness: the loader dropped a path whose file could not be loaded, the
\* store has no entry for it, and the next path is queued for the loader.
C32_Witness ==
    /\ loader.pc = "recv"
    /\ loader.last = "dropped"
    /\ store[loader.path] = NoBody
    /\ queue # <<>>
    /\ Head(queue) # loader.path

\* C33 as stated: the step in which a call that missed returns the disk
\* variant is taken with the store holding nothing for its path.
C33_MissReturnsBeforeLoad ==
    [][\A r \in Openers :
           (/\ opener[r].pc = "open"
            /\ opener[r].found = "miss"
            /\ opener'[r].pc = "done"
            /\ opener'[r].res.variant = "File") =>
               store'[opener[r].path] = NoBody]_cacheVars

\* The store changes only by the loader ending a read, which may leave a body
\* for the path it holds, and by a call removing the entry of its own path after
\* a mismatch; the step from the open of the file to the return of a call leaves
\* the store as it is, whatever the loader is doing.
StoreWriters ==
    /\ store' # store =>
           \/ /\ loader.pc = "read"
              /\ loader'.last = "loaded"
              /\ \A p \in Paths : store'[p] \in {store[p], NoBody} \/ p = loader.path
           \/ \E r \in Openers :
                  /\ opener[r].pc = "invalidate"
                  /\ opener[r].found = "mismatch"
                  /\ store' = [store EXCEPT ![opener[r].path] = NoBody]
    /\ \A r \in Openers :
           (opener[r].pc = "open" /\ opener'[r].pc = "done") =>
               /\ store' = store
               /\ loader' = loader
               /\ opener'[r].res.variant =
                      IF fs[opener[r].path] = NoFile THEN "Err" ELSE "File"

\* C33 amended: open_with_cache adds no body and waits for none: after a miss or
\* an invalidation its step from the open of the file to the return is enabled
\* in every state of the loader and of the store and returns the disk variant
\* when the file opens, the store holding a body for the path by then or not;
\* the store changes only by the loader ending a read and by a call removing
\* the entry of its own path after a mismatch.
C33_OpenNeverLoads ==
    /\ [][StoreWriters]_cacheVars
    /\ [](\A r \in Openers : opener[r].pc = "open" => ENABLED OpenFile(r))

\* C33 witness: a call missed, returned the disk variant and had its path
\* queued, and the store holds nothing for the path yet.
C33_Witness ==
    \E r \in Openers :
        /\ opener[r].pc = "done"
        /\ opener[r].found = "miss"
        /\ opener[r].res.variant = "File"
        /\ opener[r].accepted
        /\ store[opener[r].path] = NoBody
        /\ loader.pc = "recv"
        /\ queue = <<opener[r].path>>

\* A step in which an entry leaves the store is the loader inserting a body that
\* takes the weight of the store over the size of the cache, or a call removing
\* the entry of its own path after a mismatch.
EntryLeaves ==
    \A p \in Paths :
        (store[p] # NoBody /\ store'[p] # store[p]) =>
            \/ /\ loader.pc = "read"
               /\ loader'.last = "loaded"
               /\ store'[p] = NoBody
               /\ TotalWeight([store EXCEPT ![loader.path] =
                                  [meta |-> loader.meta, bytes |-> loader.meta.len]],
                              Paths) > size
            \/ \E r \in Openers :
                   /\ opener[r].pc = "invalidate"
                   /\ opener[r].path = p
                   /\ opener[r].found = "mismatch"
                   /\ store'[p] = NoBody

\* C34: an entry of the store stays as it is through the reads that return it,
\* through the loader skipping its path and through the changes of the files;
\* it leaves the store only by eviction when a loaded body takes the weight
\* over the size of the cache, or by the invalidation of a call for its path
\* that found another meta than its token.
C34_NoTimedExpiry == [][EntryLeaves]_cacheVars

\* C34 witness: an entry was loaded, the file changed afterwards, and a later
\* call with the meta of the entry still got it from the store.
C34_Witness ==
    \E r \in Openers :
        /\ opener[r].pc = "done"
        /\ opener[r].res.variant = "Cached"
        /\ store[opener[r].path] # NoBody
        /\ store[opener[r].path].meta # fs[opener[r].path]
        /\ nwrites = MaxWrites
        /\ nopens = MaxOpens
        /\ loader.last = "skipped"

\* C35: the loader task never ends: it is waiting in recv, or opening or reading
\* the file of the path it took, whatever became of the files it was given.
C35_LoaderStaysAlive == loader.pc \in {"recv", "open", "read"}

\* The steps of a call of open_with_cache: each leaves the entries of the other
\* paths as they are; the one that changes the store belongs to a call that
\* found another meta than its token and removes the entry of its path; the one
\* that finds the file missing returns the I/O error and leaves the queue and
\* the store as they are.
FailedOpenFrame ==
    \A r \in Openers :
        opener'[r] # opener[r] =>
            /\ \A p \in Paths \ {opener'[r].path} : store'[p] = store[p]
            /\ store' # store =>
                   /\ opener[r].pc = "invalidate"
                   /\ opener[r].found = "mismatch"
                   /\ store' = [store EXCEPT ![opener[r].path] = NoBody]
            /\ (opener[r].pc = "open" /\ fs[opener[r].path] = NoFile) =>
                   /\ opener'[r].pc = "done"
                   /\ opener'[r].res.variant = "Err"
                   /\ queue' = queue
                   /\ store' = store

\* C37: a call of open_with_cache whose file does not open returns the I/O
\* error and submits nothing to the loader queue; the call changed the store at
\* most by removing the entry of its own path after a mismatch, and the entries
\* of the other paths are as they were.
C37_FailedOpenSubmitsNothing ==
    /\ [][FailedOpenFrame]_cacheVars
    /\ [](\A r \in Openers :
              (opener[r].pc = "done" /\ opener[r].res.variant = "Err") =>
                  /\ ~opener[r].submitted
                  /\ ~opener[r].accepted
                  /\ opener[r].found \in {"miss", "mismatch"})

\* C37 witness: a call found another meta than its token, removed the entry of
\* its path, and got the I/O error for the file, removed meanwhile; the queue
\* is empty and the entry of the other path is in the store.
C37_Witness ==
    \E r \in Openers :
        /\ opener[r].pc = "done"
        /\ opener[r].res.variant = "Err"
        /\ opener[r].found = "mismatch"
        /\ store[opener[r].path] = NoBody
        /\ \E p \in Paths \ {opener[r].path} : store[p] # NoBody
        /\ queue = <<>>

\* C14: the loader queue never holds more than its capacity; a call that
\* submitted its path to a full queue returned the disk variant all the same,
\* the queue keeping what it held.
C14_QueueBounded ==
    /\ Len(queue) <= QueueCap
    /\ \A r \in Openers :
           (opener[r].pc = "done" /\ opener[r].submitted) =>
               opener[r].res.variant = "File"

\* C14 witness: a call submitted its path while the queue was full; the path
\* was dropped and the call returned the disk variant.
C14_Witness ==
    \E r \in Openers :
        /\ opener[r].pc = "done"
        /\ opener[r].submitted
        /\ ~opener[r].accepted
        /\ opener[r].res.variant = "File"
        /\ Len(queue) = QueueCap
        /\ loader.pc # "dead"

(***************************************************************************)
(*                         meta.rs: metadata cache                         *)
(*                                                                         *)
(* MetaCache keeps a moka future::Cache<PathBuf, Meta> whose entries expire *)
(* a time to live after their insertion; get and insert are atomic          *)
(* operations of the library, and get gives nothing for an expired entry.   *)
(* The files are those of the body cache.                                   *)
(***************************************************************************)

\* Bounds of the metadata cache model.
MetaTTL == 2           \* MetaCacheConfig.ttl (60 s by default), in ticks
MaxMetaCalls == 2      \* calls of MetaCache::metadata ever begun

MetaCallers == {"m1", "m2"}

NoMetaEntry == [meta |-> NoMeta, age |-> 0]

\* The result of a call: Ok(meta) or Err(io::Error).
MetaOk(meta) == [kind |-> "Ok", meta |-> meta]
MetaErr == [kind |-> "Err", meta |-> NoMeta]
NoMetaResult == [kind |-> "none", meta |-> NoMeta]

\* A task outside MetaCache::metadata.  how is history: whether the call was
\* answered from the cache or by a stat.
IdleMetaCaller == [pc |-> "idle", path |-> "a", meta |-> NoMeta,
                   res |-> NoMetaResult, how |-> "none"]

VARIABLES
    mstore,       \* MetaCache.cache: per path, the Meta held and its age in ticks
    mcaller,      \* per task: its position in MetaCache::metadata, its path, its result
    nmcalls,      \* number of calls of MetaCache::metadata begun
    nstats        \* history: number of stats MetaCache::metadata has performed

metaVars == <<mstore, mcaller, nmcalls, nstats>>

\* MetaCache::new: an empty cache.
InitMeta ==
    /\ mstore = [p \in Paths |-> NoMetaEntry]
    /\ mcaller = [c \in MetaCallers |-> IdleMetaCaller]
    /\ nmcalls = 0
    /\ nstats = 0

\* A variant of the lookup of MetaCache::metadata that ignores the cache.
MetaGetNoCache(c, path) ==
    /\ mcaller[c].pc = "idle"
    /\ nmcalls < MaxMetaCalls
    /\ nmcalls' = nmcalls + 1
    /\ mcaller' = [mcaller EXCEPT ![c] =
                     [IdleMetaCaller EXCEPT !.pc = "stat", !.path = path, !.how = "stat"]]
    /\ UNCHANGED <<mstore, nstats>>

\* MetaCache::metadata, self.cache.get(path): Some(meta) is returned as
\* Ok(meta); on None the path is to be stat'd.
MetaGet(c, path) ==
    /\ mcaller[c].pc = "idle"
    /\ nmcalls < MaxMetaCalls
    /\ nmcalls' = nmcalls + 1
    /\ IF mstore[path] # NoMetaEntry
       THEN mcaller' = [mcaller EXCEPT ![c] =
                          [IdleMetaCaller EXCEPT !.pc = "done", !.path = path,
                                                 !.res = MetaOk(mstore[path].meta),
                                                 !.how = "cached"]]
       ELSE mcaller' = [mcaller EXCEPT ![c] =
                          [IdleMetaCaller EXCEPT !.pc = "stat", !.path = path,
                                                 !.how = "stat"]]
    /\ UNCHANGED <<mstore, nstats>>

\* A variant of the stat of MetaCache::metadata that stores the failure.
MetaStatStoreFailure(c) ==
    /\ mcaller[c].pc = "stat"
    /\ nstats' = nstats + 1
    /\ IF fs[mcaller[c].path] = NoFile
       THEN /\ mcaller' = [mcaller EXCEPT ![c].pc = "done", ![c].res = MetaErr]
            /\ mstore' = [mstore EXCEPT ![mcaller[c].path] = [meta |-> NoMeta, age |-> 1]]
       ELSE /\ mcaller' = [mcaller EXCEPT ![c].pc = "insert",
                                          ![c].meta = fs[mcaller[c].path]]
            /\ UNCHANGED mstore
    /\ UNCHANGED nmcalls

\* MetaCache::metadata, Meta::from_path(path).await?: the error of a failed stat
\* is returned at once; otherwise the Meta of the file is to be inserted.
MetaStat(c) ==
    /\ mcaller[c].pc = "stat"
    /\ nstats' = nstats + 1
    /\ IF fs[mcaller[c].path] = NoFile
       THEN mcaller' = [mcaller EXCEPT ![c].pc = "done", ![c].res = MetaErr]
       ELSE mcaller' = [mcaller EXCEPT ![c].pc = "insert",
                                       ![c].meta = fs[mcaller[c].path]]
    /\ UNCHANGED <<mstore, nmcalls>>

\* MetaCache::metadata, self.cache.insert(path, meta).await and Ok(meta): the
\* entry starts its time to live.
MetaInsert(c) ==
    /\ mcaller[c].pc = "insert"
    /\ mstore' = [mstore EXCEPT ![mcaller[c].path] =
                     [meta |-> mcaller[c].meta, age |-> 0]]
    /\ mcaller' = [mcaller EXCEPT ![c].pc = "done", ![c].res = MetaOk(mcaller[c].meta)]
    /\ UNCHANGED <<nmcalls, nstats>>

\* MetaCache::metadata has returned.
MetaReturn(c) ==
    /\ mcaller[c].pc = "done"
    /\ mcaller' = [mcaller EXCEPT ![c] = IdleMetaCaller]
    /\ UNCHANGED <<mstore, nmcalls, nstats>>

\* Time passes: every entry ages by a tick, and an entry whose age reaches the
\* time to live is gone.
MetaTick ==
    /\ \E p \in Paths : mstore[p] # NoMetaEntry
    /\ mstore' = [p \in Paths |->
                     IF mstore[p] = NoMetaEntry \/ mstore[p].age + 1 >= MetaTTL
                     THEN NoMetaEntry
                     ELSE [mstore[p] EXCEPT !.age = @ + 1]]
    /\ UNCHANGED <<mcaller, nmcalls, nstats>>

(***************************************************************************)
(*                     Properties of the metadata cache                    *)
(***************************************************************************)

\* C16: a call of metadata(path) that finds an entry returns the Meta of the
\* entry at once, without a stat and without touching the store; a call that
\* finds none stats the path, and when the stat succeeds it stores the Meta the
\* file has at the stat and returns that same Meta.
C16_CachedMetaOrStat ==
    [][\A c \in MetaCallers :
          /\ (mcaller[c].pc = "idle" /\ mcaller'[c].pc # "idle") =>
                IF mstore[mcaller'[c].path] # NoMetaEntry
                THEN /\ mcaller'[c].pc = "done"
                     /\ mcaller'[c].res = MetaOk(mstore[mcaller'[c].path].meta)
                     /\ nstats' = nstats
                     /\ mstore' = mstore
                ELSE mcaller'[c].pc = "stat"
          /\ (mcaller[c].pc = "stat" /\ mcaller'[c].pc # "stat") =>
                /\ nstats' = nstats + 1
                /\ fs[mcaller[c].path] # NoFile =>
                      (mcaller'[c].pc = "insert" /\ mcaller'[c].meta = fs[mcaller[c].path])
          /\ (mcaller[c].pc = "insert" /\ mcaller'[c].pc # "insert") =>
                /\ mcaller'[c].pc = "done"
                /\ mcaller'[c].res = MetaOk(mcaller[c].meta)
                /\ mstore'[mcaller[c].path] = [meta |-> mcaller[c].meta, age |-> 0]
      ]_<<fs, metaVars>>

\* C16 witness: one call was answered by a stat and stored its Meta, a second
\* call for the same path within the time to live was answered from the cache
\* with the same Meta, and one stat was made in all.
C16_Witness ==
    \E c, d \in MetaCallers :
        /\ mcaller[c].pc = "done" /\ mcaller[c].how = "stat"
        /\ mcaller[d].pc = "done" /\ mcaller[d].how = "cached"
        /\ mcaller[c].path = mcaller[d].path
        /\ mcaller[c].res.kind = "Ok"
        /\ mcaller[c].res = mcaller[d].res
        /\ mstore[mcaller[c].path].age = 1
        /\ nstats = 1

\* C17: a call of metadata(path) whose stat fails returns the error and leaves
\* the store as it is; the store never holds an entry without the Meta of a
\* file, so that the next call that finds no entry stats the path again.
C17_StatErrorNotCached ==
    [][/\ \A c \in MetaCallers :
             (mcaller[c].pc = "stat" /\ mcaller'[c].pc # "stat"
                 /\ fs[mcaller[c].path] = NoFile) =>
                 /\ mcaller'[c].pc = "done"
                 /\ mcaller'[c].res = MetaErr
                 /\ mstore' = mstore
       /\ \A p \in Paths : mstore'[p] # NoMetaEntry => mstore'[p].meta # NoMeta
      ]_<<fs, metaVars>>

\* C17 witness: two calls for a path whose file is missing both made a stat and
\* both returned the error, the store holding nothing for the path.
C17_Witness ==
    /\ \A c \in MetaCallers :
          /\ mcaller[c].pc = "done"
          /\ mcaller[c].res = MetaErr
          /\ mcaller[c].path = "a"
    /\ mstore["a"] = NoMetaEntry
    /\ nstats = 2

(***************************************************************************)
(*              The request path over both caches (spec 4.5)               *)
(*                                                                         *)
(* The tile endpoint stats the path through the metadata cache and         *)
(* presents the Meta it is given to the body cache as the freshness token. *)
(***************************************************************************)

\* The path the requests are for.
RequestPaths == {"a"}

\* RequestOpen with a token that is not the Meta the metadata cache gave.
RequestOpenAnyToken(c, r) ==
    /\ mcaller[c].pc = "done"
    /\ mcaller[c].res.kind = "Ok"
    /\ \E meta \in Metas : OpenLookup(r, mcaller[c].path, meta)
    /\ mcaller' = [mcaller EXCEPT ![c] = IdleMetaCaller]
    /\ UNCHANGED <<mstore, nmcalls, nstats>>

\* Steps 4 and 5 of the tile endpoint: the Meta that MetaCache::metadata
\* returned for the path is the token of open_with_cache for that path.
RequestOpen(c, r) ==
    /\ mcaller[c].pc = "done"
    /\ mcaller[c].res.kind = "Ok"
    /\ OpenLookup(r, mcaller[c].path, mcaller[c].res.meta)
    /\ mcaller' = [mcaller EXCEPT ![c] = IdleMetaCaller]
    /\ UNCHANGED <<mstore, nmcalls, nstats>>

\* C15 as stated: a call of open_with_cache that returns Cached returns a body
\* whose meta is the Meta the file has at the lookup.
C15_NoStaleBytes ==
    [][\A r \in Openers :
          (/\ opener[r].pc = "idle"
           /\ opener'[r].pc = "done"
           /\ opener'[r].res.variant = "Cached")
          => opener'[r].res.meta = fs[opener'[r].path]]_<<cacheVars, metaVars>>

\* C15 amended: the token of a request is a Meta the file has had (the one the
\* metadata cache gave), and a request answered from the body cache is answered
\* with a body whose meta is that token; it is the Meta the file has on disk as
\* long as the file has not been written or removed.
C15_BodyMatchesCachedMeta ==
    \A r \in Openers :
        /\ opener[r].pc # "idle" => opener[r].meta \in had[opener[r].path]
        /\ (opener[r].pc = "done" /\ opener[r].res.variant = "Cached") =>
            /\ opener[r].res.meta = opener[r].meta
            /\ (nwrites = 0 => opener[r].res.meta = fs[opener[r].path])

\* C15 witness: a request was answered from the body cache with the meta the
\* metadata cache still holds, the file on disk having another meta by now.
C15_Witness ==
    \E r \in Openers :
        /\ opener[r].pc = "done"
        /\ opener[r].res.variant = "Cached"
        /\ mstore[opener[r].path] # NoMetaEntry
        /\ mstore[opener[r].path].meta = opener[r].res.meta
        /\ fs[opener[r].path] # NoFile
        /\ fs[opener[r].path] # opener[r].res.meta

(***************************************************************************)
(*                     The tile endpoint (main.rs)                         *)
(*                                                                         *)
(* GET /models/<object>/<model>/<path..>, as the handler tileset of        *)
(* main.rs serves it: the verdict of ModelAccess::check, the path under    *)
(* the storage root, the body cache of model_cache.rs, the metric record.  *)
(* The verdict is the value access.check returns; how it is obtained is    *)
(* the subject of the access section.  Requests are handled one at a time. *)
(***************************************************************************)

MaxRequests == 3       \* requests ever begun
MaxTreeOps == 2        \* files ever created or removed under the storage root

TileObject == "lake"
TileModel == "first"

\* The <path..> segments of the requests: none (the model's directory), a tile.
Tails == {<<>>, <<"tile">>}

\* file.push(name)
Push(file, name) == Append(file, name)

\* PathBuf::from(root) with object, model and path pushed (main.rs:47-50); the
\* root is the empty prefix.
Composed(object, model, tail) == <<object, model>> \o tail

ModelDir == Composed(TileObject, TileModel, <<>>)

\* The files that come and go under the model's directory.
TileFiles == {Push(ModelDir, "tileset.json"), Push(ModelDir, "tile")}

TreePaths == {ModelDir} \cup TileFiles

NoPath == <<>>

HttpOk == 200
Forbidden == 403
NotFound == 404
NoStatus == 0

\* The lengths of the files under the storage root.
TileLens == {1, 2}

NoNode == [kind |-> "none", len |-> 0]
DirNode == [kind |-> "dir", len |-> 0]
FileNode(len) == [kind |-> "file", len |-> len]

\* No Content for a path of the body cache.
NoContent == 0

NoTileResult == [kind |-> "none", cached |-> FALSE, len |-> 0]

\* CachedNamedFile::File(f, l) and CachedNamedFile::Cached(c), with len().
TileFile(l) == [kind |-> "Ok", cached |-> FALSE, len |-> l]
TileCached(length) == [kind |-> "Ok", cached |-> TRUE, len |-> length]
TileErr == [kind |-> "Err", cached |-> FALSE, len |-> 0]

\* StatKey::new(Some(object), Some(model)) with Metrics { hits, cached, bytes }.
TileRecord(object, model, cached, bytes) ==
    [key |-> LeafKey(object, model), hits |-> 1, cached |-> cached, bytes |-> bytes]

\* The handler between requests.  opened: open_with_cache has been called;
\* wasDir: file.is_dir() held; treeAt: the tree's version when the path was built;
\* sent: the records the request has passed to stat.insert.
IdleRequest ==
    [pc |-> "idle", tail |-> <<>>, verdict |-> "none", file |-> NoPath,
     res |-> NoTileResult, status |-> NoStatus,
     opened |-> FALSE, wasDir |-> FALSE, treeAt |-> 0, sent |-> <<>>]

VARIABLES
    tree,       \* the storage root: path -> directory, file of a length, or nothing
    ntree,      \* files created or removed so far
    tstore,     \* the body cache of model_cache.rs: path -> length of its live Content
    tqueue,     \* the loader's channel
    req,        \* the handler
    nreq        \* requests begun so far

tileVars == <<tree, ntree, tstore, tqueue, req, nreq>>

InitTile ==
    /\ tree = [p \in TreePaths |-> IF p = ModelDir THEN DirNode ELSE FileNode(1)]
    /\ ntree = 0
    /\ tstore = [p \in TileFiles |-> NoContent]
    /\ tqueue = <<>>
    /\ req = IdleRequest
    /\ nreq = 0

IsDir(t, p) == p \in DOMAIN t /\ t[p].kind = "dir"
Exists(t, p) == p \in DOMAIN t /\ t[p].kind # "none"

\* A file appears under the model's directory.
TreeCreate(p, len) ==
    /\ ntree < MaxTreeOps
    /\ tree[p] = NoNode
    /\ tree' = [tree EXCEPT ![p] = FileNode(len)]
    /\ ntree' = ntree + 1
    /\ UNCHANGED <<tstore, tqueue, req, nreq>>

\* A file is removed from the model's directory.
TreeRemove(p) ==
    /\ ntree < MaxTreeOps
    /\ tree[p].kind = "file"
    /\ tree' = [tree EXCEPT ![p] = NoNode]
    /\ ntree' = ntree + 1
    /\ UNCHANGED <<tstore, tqueue, req, nreq>>

\* The handler that builds the path whatever the verdict is.
TileCheckIgnoreVerdict(tail, verdict) ==
    /\ req.pc = "idle"
    /\ nreq < MaxRequests
    /\ nreq' = nreq + 1
    /\ req' = [IdleRequest EXCEPT !.pc = "resolve", !.tail = tail, !.verdict = verdict]
    /\ UNCHANGED <<tree, ntree, tstore, tqueue>>

\* access.check(AccessKey::new(..)).await and the match on it: Denied is
\* answered Forbidden at once, Granted goes on to the file.
TileCheck(tail, verdict) ==
    /\ req.pc = "idle"
    /\ nreq < MaxRequests
    /\ nreq' = nreq + 1
    /\ req' = IF verdict = Granted
              THEN [IdleRequest EXCEPT !.pc = "resolve", !.tail = tail,
                                       !.verdict = verdict]
              ELSE [IdleRequest EXCEPT !.pc = "done", !.tail = tail,
                                       !.verdict = verdict, !.status = Forbidden]
    /\ UNCHANGED <<tree, ntree, tstore, tqueue>>

\* The path of the served file: root/object/model/path, with tileset.json
\* pushed when it is a directory.
TileResolve ==
    /\ req.pc = "resolve"
    /\ LET file == Composed(TileObject, TileModel, req.tail)
           dir == IsDir(tree, file)
       IN req' = [req EXCEPT !.pc = "get",
                             !.file = IF dir THEN Push(file, "tileset.json") ELSE file,
                             !.wasDir = dir, !.treeAt = ntree]
    /\ UNCHANGED <<tree, ntree, tstore, tqueue, nreq>>

\* open_with_cache: cache.get(path); a Content found is the result.
TileGet ==
    /\ req.pc = "get"
    /\ req' = IF tstore[req.file] # NoContent
              THEN [req EXCEPT !.pc = "stat", !.opened = TRUE,
                               !.res = TileCached(tstore[req.file])]
              ELSE [req EXCEPT !.pc = "open", !.opened = TRUE]
    /\ UNCHANGED <<tree, ntree, tstore, tqueue, nreq>>

\* The handler that answers an open failure as a success.
TileOpenErrorAsOk ==
    /\ req.pc = "open"
    /\ IF Exists(tree, req.file)
       THEN /\ req' = [req EXCEPT !.pc = "stat",
                                  !.res = TileFile(tree[req.file].len)]
            /\ tqueue' = TrySend(tqueue, req.file)
       ELSE /\ req' = [req EXCEPT !.pc = "done", !.status = HttpOk,
                                  !.res = TileErr]
            /\ UNCHANGED tqueue
    /\ UNCHANGED <<tree, ntree, tstore, nreq>>

\* open_with_cache without a Content: Self::open(path).await?, the path sent to
\* the loader (every file of the tree is within the cache size), Ok(f); the
\* handler answers an Err as NotFound.
TileOpen ==
    /\ req.pc = "open"
    /\ IF Exists(tree, req.file)
       THEN /\ req' = [req EXCEPT !.pc = "stat",
                                  !.res = TileFile(tree[req.file].len)]
            /\ tqueue' = TrySend(tqueue, req.file)
       ELSE /\ req' = [req EXCEPT !.pc = "done", !.status = NotFound,
                                  !.res = TileErr]
            /\ UNCHANGED tqueue
    /\ UNCHANGED <<tree, ntree, tstore, nreq>>

\* The handler that records every response as served from disk.
TileStatUncached ==
    /\ req.pc = "stat"
    /\ LET rec == TileRecord(TileObject, TileModel, 0, req.res.len)
       IN /\ StatInsert([key |-> rec.key,
                         metrics |-> [hits |-> rec.hits, bytes |-> rec.bytes]])
          /\ req' = [req EXCEPT !.pc = "done", !.status = HttpOk,
                                !.sent = Append(@, rec)]
    /\ UNCHANGED <<tree, ntree, tstore, tqueue, nreq>>

\* stat.insert(key, metrics).await, then the response that carries the file.
TileStat ==
    /\ req.pc = "stat"
    /\ LET rec == TileRecord(TileObject, TileModel,
                             IF req.res.cached THEN 1 ELSE 0, req.res.len)
       IN /\ StatInsert([key |-> rec.key,
                         metrics |-> [hits |-> rec.hits, bytes |-> rec.bytes]])
          /\ req' = [req EXCEPT !.pc = "done", !.status = HttpOk,
                                !.sent = Append(@, rec)]
    /\ UNCHANGED <<tree, ntree, tstore, tqueue, nreq>>

\* The response is sent; the handler takes the next request.
TileRespond ==
    /\ req.pc = "done"
    /\ req' = IdleRequest
    /\ UNCHANGED <<tree, ntree, tstore, tqueue, nreq>>

\* The loader task of model_cache.rs: a received path that has no Content and
\* can be read is inserted.
TileLoader ==
    /\ tqueue # <<>>
    /\ tqueue' = Tail(tqueue)
    /\ tstore' = IF tstore[Head(tqueue)] = NoContent /\ tree[Head(tqueue)].kind = "file"
                 THEN [tstore EXCEPT ![Head(tqueue)] = tree[Head(tqueue)].len]
                 ELSE tstore
    /\ UNCHANGED <<tree, ntree, req, nreq>>

\* The cache drops a Content: time to live, time to idle, or size pressure.
TileEvict(p) ==
    /\ tstore[p] # NoContent
    /\ tstore' = [tstore EXCEPT ![p] = NoContent]
    /\ UNCHANGED <<tree, ntree, tqueue, req, nreq>>

\* C18: a request whose verdict is Denied is answered 403 and has neither a
\* path built nor a file opened; an answer that carries a file has the verdict
\* Granted.
C18_DeniedIsForbidden ==
    /\ req.verdict = Denied =>
           /\ req.pc = "done"
           /\ req.status = Forbidden
           /\ req.file = NoPath
           /\ ~req.opened
           /\ req.res = NoTileResult
    /\ (req.res.kind = "Ok" \/ req.status = HttpOk) => req.verdict = Granted

\* C18 witness: a denied request has been answered.
C18_Witness ==
    req.pc = "done" /\ req.verdict = Denied /\ req.status = Forbidden

\* C19: a granted request whose open_with_cache gave an I/O error is answered
\* 404.
C19_OpenErrorIsNotFound ==
    (req.verdict = Granted /\ req.res.kind = "Err") =>
        req.pc = "done" /\ req.status = NotFound

\* C19 witness: a granted request for a missing tile has been answered 404.
C19_Witness ==
    /\ req.pc = "done"
    /\ req.verdict = Granted
    /\ req.res.kind = "Err"
    /\ ~req.wasDir
    /\ ~Exists(tree, req.file)
    /\ req.status = NotFound

\* C21: a request answered with a file has passed exactly one record to
\* stat.insert, keyed (object, model), with hits 1, cached 1 for a memory-served
\* response and 0 for a disk-served one, and bytes the length of what is served
\* (the length of the file on disk when nothing was written under the root since
\* the path was built, for a disk-served response, or ever, for a memory-served
\* one); a request that is not answered with a file has passed none.
C21_OneRecordPerServedFile ==
    /\ (req.pc = "done" /\ req.status = HttpOk) =>
           /\ req.verdict = Granted
           /\ req.res.kind = "Ok"
           /\ req.sent = <<TileRecord(TileObject, TileModel,
                                      IF req.res.cached THEN 1 ELSE 0, req.res.len)>>
           /\ (~req.res.cached /\ req.treeAt = ntree) =>
                  req.sent[1].bytes = tree[req.file].len
           /\ (req.res.cached /\ ntree = 0) => req.sent[1].bytes = tree[req.file].len
    /\ ~(req.pc = "done" /\ req.status = HttpOk) => req.sent = <<>>
    /\ sentSum[LeafKey(TileObject, TileModel)].hits = nsent

\* C21 witness: a memory-served response and its record with cached = 1.
C21_Witness ==
    /\ req.pc = "done"
    /\ req.status = HttpOk
    /\ req.res.cached
    /\ req.sent # <<>>
    /\ req.sent[1].cached = 1
    /\ req.sent[1].bytes = tree[req.file].len

\* C20 as stated: a request for a directory is served the tileset.json inside
\* it, and when that file is missing (from the moment the path is built to the
\* answer) the answer is 404.
C20_DirectoryDefault ==
    (req.pc = "done" /\ req.wasDir) =>
        /\ req.file = Push(Composed(TileObject, TileModel, req.tail), "tileset.json")
        /\ (req.treeAt = ntree /\ ~Exists(tree, req.file)) => req.status = NotFound

(***************************************************************************)
(*                     The stat endpoints (main.rs)                        *)
(*                                                                         *)
(* GET /stat, /stat/<object>, /stat/<object>/<model>: the verdict of        *)
(* ModelAccess::check for the key of the scope, then Stat::get for the     *)
(* StatKey of the scope.  The verdict is the value access.check returns.   *)
(* Requests are handled one at a time.                                     *)
(***************************************************************************)

MaxStatRequests == 2   \* requests ever begun on the stat endpoints

\* The session of a request: absent, or the value of the cookie.
Sessions == SessionValues \cup {None}

\* AccessKey::new(object, model, session_id)
AccessKeyNew(object, model, session) ==
    [object |-> object, name |-> model, session |-> session]

\* StatKey::new(object, model)
StatKeyNew(object, model) == [object |-> object, model |-> model]

\* The records the tile endpoint sends for the models of one object.
ServedRecords == {rec \in Record : rec.key.object = TileObject /\ rec.key.model # None}

\* The handler between requests.  checked: the key passed to access.check;
\* read: Stat::get has been called; stored: the entry of the scope's key in the
\* table when Stat::get read it.
IdleEndpoint ==
    [pc |-> "idle", route |-> "none", object |-> None, model |-> None,
     session |-> None, checked |-> AccessKeyNew(None, None, None),
     verdict |-> "none", status |-> NoStatus, body |-> NoRes,
     read |-> FALSE, stored |-> NoRes]

VARIABLES
    ep,         \* the handler of the stat endpoints
    nep         \* requests begun so far

apiVars == <<ep, nep>>

InitApi ==
    /\ ep = IdleEndpoint
    /\ nep = 0

\* The common shape of the three handlers: access.check(akey).await, then on
\* Granted stat.get(&skey) up to its yield, on Denied Err(Status::Forbidden).
StatEndpoint(route, object, model, session, akey, skey, verdict) ==
    /\ ep.pc = "idle"
    /\ gpc = "idle"
    /\ nep < MaxStatRequests
    /\ nep' = nep + 1
    /\ IF verdict = Granted
       THEN /\ StatGetYield(skey)
            /\ ep' = [IdleEndpoint EXCEPT !.pc = "get", !.route = route,
                          !.object = object, !.model = model, !.session = session,
                          !.checked = akey, !.verdict = verdict, !.read = TRUE]
       ELSE /\ ep' = [IdleEndpoint EXCEPT !.pc = "done", !.route = route,
                          !.object = object, !.model = model, !.session = session,
                          !.checked = akey, !.verdict = verdict,
                          !.status = Forbidden]
            /\ UNCHANGED statVars

\* GET /stat
stat_all(session, verdict) ==
    StatEndpoint("all", None, None, session,
                 AccessKeyNew(None, None, session), StatKeyNew(None, None), verdict)

\* GET /stat/<object>
stat_object(object, session, verdict) ==
    StatEndpoint("object", object, None, session,
                 AccessKeyNew(object, None, session), StatKeyNew(object, None), verdict)

\* A stat_model that reads the metrics of the whole object.
stat_model_object_scope(object, model, session, verdict) ==
    StatEndpoint("model", object, model, session,
                 AccessKeyNew(object, None, session), StatKeyNew(object, None), verdict)

\* GET /stat/<object>/<model>
stat_model(object, model, session, verdict) ==
    StatEndpoint("model", object, model, session,
                 AccessKeyNew(object, model, session), StatKeyNew(object, model), verdict)

\* Stat::get reads the table; Ok(Json(metrics)).
StatEndpointGet ==
    /\ ep.pc = "get"
    /\ StatGetRead
    /\ ep' = [ep EXCEPT !.pc = "done", !.status = HttpOk, !.body = gres',
                        !.stored = StatTableGet(table, StatKeyNew(ep.object, ep.model))]
    /\ UNCHANGED nep

\* The response is sent; the handler takes the next request.
StatEndpointRespond ==
    /\ ep.pc = "done"
    /\ ep' = IdleEndpoint
    /\ UNCHANGED <<nep, statVars>>

\* C22: each stat endpoint passes to access.check the key of its own scope with
\* the session of the request; a granted request is answered with the metrics
\* the table holds for the StatKey of that scope, a denied one is answered 403
\* without a call of Stat::get.
C22_StatScope ==
    /\ ep.pc # "idle" =>
           /\ ep.checked.session = ep.session
           /\ ep.route = "all" => (ep.checked.object = None /\ ep.checked.name = None)
           /\ ep.route = "object" =>
                  (ep.checked.object = ep.object /\ ep.object # None
                   /\ ep.checked.name = None)
           /\ ep.route = "model" =>
                  (ep.checked.object = ep.object /\ ep.object # None
                   /\ ep.checked.name = ep.model /\ ep.model # None)
    /\ ep.verdict = Denied =>
           (ep.pc = "done" /\ ep.status = Forbidden /\ ~ep.read /\ ep.body = NoRes)
    /\ (ep.pc = "done" /\ ep.verdict = Granted) =>
           (ep.status = HttpOk /\ ep.body = ep.stored /\ ep.body # NoRes)
    /\ ep.status = HttpOk => ep.verdict = Granted

\* C22 witness: a granted request for a model's metrics, answered with the
\* entry of the model while the object's entry holds more.
C22_Witness ==
    /\ ep.pc = "done"
    /\ ep.route = "model"
    /\ ep.verdict = Granted
    /\ ep.session # None
    /\ ep.body = [hits |-> 1, bytes |-> 2]
    /\ StatTableGet(table, ObjectKey(ep.object)) = [hits |-> 2, bytes |-> 4]

(***************************************************************************)
(*                              Specifications                             *)
(***************************************************************************)

vars == <<statVars, accessVars, cacheVars, metaVars, tileVars, apiVars>>

Init == InitStat /\ InitAccess /\ InitCache /\ InitMeta /\ InitTile /\ InitApi

NextStat ==
    \/ \E rec \in Record : StatInsert(rec) /\ UNCHANGED <<accessVars, cacheVars, metaVars, tileVars, apiVars>>
    \/ ConsumerRecv /\ UNCHANGED <<accessVars, cacheVars, metaVars, tileVars, apiVars>>
    \/ ConsumerInsert /\ UNCHANGED <<accessVars, cacheVars, metaVars, tileVars, apiVars>>
    \/ \E key \in StatKey : StatGetYield(key) /\ UNCHANGED <<accessVars, cacheVars, metaVars, tileVars, apiVars>>
    \/ StatGetRead /\ UNCHANGED <<accessVars, cacheVars, metaVars, tileVars, apiVars>>

NextAccess ==
    \/ \E c \in Callers, key \in CheckKeys :
           CheckCall(c, key) /\ UNCHANGED <<statVars, cacheVars, metaVars, tileVars, apiVars>>
    \/ \E c \in Callers : CheckRemoteSend(c) /\ UNCHANGED <<statVars, cacheVars, metaVars, tileVars, apiVars>>
    \/ \E c \in Callers, outcome \in Outcomes :
           CheckRemoteReturn(c, outcome) /\ UNCHANGED <<statVars, cacheVars, metaVars, tileVars, apiVars>>
    \/ \E c \in Callers : CheckDone(c) /\ UNCHANGED <<statVars, cacheVars, metaVars, tileVars, apiVars>>
    \/ Tick /\ UNCHANGED <<statVars, cacheVars, metaVars, tileVars, apiVars>>

NextCache ==
    \/ \E sz \in CacheSizes : FileCacheNew(sz) /\ UNCHANGED <<statVars, accessVars, metaVars, tileVars, apiVars>>
    \/ \E path \in Paths, len \in Lens :
           FileWrite(path, len) /\ UNCHANGED <<statVars, accessVars, metaVars, tileVars, apiVars>>
    \/ \E path \in Paths : FileRemove(path) /\ UNCHANGED <<statVars, accessVars, metaVars, tileVars, apiVars>>
    \/ \E r \in Openers, path \in Paths, meta \in Metas :
           OpenLookup(r, path, meta) /\ UNCHANGED <<statVars, accessVars, metaVars, tileVars, apiVars>>
    \/ \E r \in Openers : OpenInvalidate(r) /\ UNCHANGED <<statVars, accessVars, metaVars, tileVars, apiVars>>
    \/ \E r \in Openers : OpenFile(r) /\ UNCHANGED <<statVars, accessVars, metaVars, tileVars, apiVars>>
    \/ \E r \in Openers : OpenReturn(r) /\ UNCHANGED <<statVars, accessVars, metaVars, tileVars, apiVars>>
    \/ LoaderRecv /\ UNCHANGED <<statVars, accessVars, metaVars, tileVars, apiVars>>
    \/ LoaderOpen /\ UNCHANGED <<statVars, accessVars, metaVars, tileVars, apiVars>>
    \/ \E ok \in BOOLEAN : LoaderRead(ok) /\ UNCHANGED <<statVars, accessVars, metaVars, tileVars, apiVars>>

NextMeta ==
    \/ \E path \in Paths, len \in Lens :
           /\ FileWrite(path, len)
           /\ UNCHANGED <<statVars, accessVars, metaVars, tileVars, apiVars>>
    \/ \E path \in Paths :
           FileRemove(path) /\ UNCHANGED <<statVars, accessVars, metaVars, tileVars, apiVars>>
    \/ \E c \in MetaCallers, path \in Paths :
           MetaGet(c, path) /\ UNCHANGED <<statVars, accessVars, cacheVars, tileVars, apiVars>>
    \/ \E c \in MetaCallers : MetaStat(c) /\ UNCHANGED <<statVars, accessVars, cacheVars, tileVars, apiVars>>
    \/ \E c \in MetaCallers : MetaInsert(c) /\ UNCHANGED <<statVars, accessVars, cacheVars, tileVars, apiVars>>
    \/ \E c \in MetaCallers : MetaReturn(c) /\ UNCHANGED <<statVars, accessVars, cacheVars, tileVars, apiVars>>
    \/ MetaTick /\ UNCHANGED <<statVars, accessVars, cacheVars, tileVars, apiVars>>

NextFresh ==
    \/ FileCacheNew(CacheSize) /\ UNCHANGED <<statVars, accessVars, metaVars, tileVars, apiVars>>
    \/ \E path \in RequestPaths, len \in Lens :
           /\ FileWrite(path, len)
           /\ UNCHANGED <<statVars, accessVars, metaVars, tileVars, apiVars>>
    \/ \E path \in RequestPaths :
           FileRemove(path) /\ UNCHANGED <<statVars, accessVars, metaVars, tileVars, apiVars>>
    \/ \E c \in MetaCallers, path \in RequestPaths :
           MetaGet(c, path) /\ UNCHANGED <<statVars, accessVars, cacheVars, tileVars, apiVars>>
    \/ \E c \in MetaCallers : MetaStat(c) /\ UNCHANGED <<statVars, accessVars, cacheVars, tileVars, apiVars>>
    \/ \E c \in MetaCallers : MetaInsert(c) /\ UNCHANGED <<statVars, accessVars, cacheVars, tileVars, apiVars>>
    \/ \E c \in MetaCallers : MetaReturn(c) /\ UNCHANGED <<statVars, accessVars, cacheVars, tileVars, apiVars>>
    \/ MetaTick /\ UNCHANGED <<statVars, accessVars, cacheVars, tileVars, apiVars>>
    \/ \E c \in MetaCallers, r \in Openers :
           RequestOpen(c, r) /\ UNCHANGED <<statVars, accessVars, tileVars, apiVars>>
    \/ \E r \in Openers : OpenInvalidate(r) /\ UNCHANGED <<statVars, accessVars, metaVars, tileVars, apiVars>>
    \/ \E r \in Openers : OpenFile(r) /\ UNCHANGED <<statVars, accessVars, metaVars, tileVars, apiVars>>
    \/ \E r \in Openers : OpenReturn(r) /\ UNCHANGED <<statVars, accessVars, metaVars, tileVars, apiVars>>
    \/ LoaderRecv /\ UNCHANGED <<statVars, accessVars, metaVars, tileVars, apiVars>>
    \/ LoaderOpen /\ UNCHANGED <<statVars, accessVars, metaVars, tileVars, apiVars>>
    \/ \E ok \in BOOLEAN : LoaderRead(ok) /\ UNCHANGED <<statVars, accessVars, metaVars, tileVars, apiVars>>

NextTile ==
    \/ \E p \in TileFiles, len \in TileLens :
           TreeCreate(p, len) /\ UNCHANGED <<statVars, accessVars, cacheVars, metaVars, apiVars>>
    \/ \E p \in TileFiles :
           TreeRemove(p) /\ UNCHANGED <<statVars, accessVars, cacheVars, metaVars, apiVars>>
    \/ \E tail \in Tails, verdict \in {Granted, Denied} :
           TileCheck(tail, verdict)
           /\ UNCHANGED <<statVars, accessVars, cacheVars, metaVars, apiVars>>
    \/ TileResolve /\ UNCHANGED <<statVars, accessVars, cacheVars, metaVars, apiVars>>
    \/ TileGet /\ UNCHANGED <<statVars, accessVars, cacheVars, metaVars, apiVars>>
    \/ TileOpen /\ UNCHANGED <<statVars, accessVars, cacheVars, metaVars, apiVars>>
    \/ TileStat /\ UNCHANGED <<accessVars, cacheVars, metaVars, apiVars>>
    \/ TileRespond /\ UNCHANGED <<statVars, accessVars, cacheVars, metaVars, apiVars>>
    \/ TileLoader /\ UNCHANGED <<statVars, accessVars, cacheVars, metaVars, apiVars>>
    \/ \E p \in TileFiles :
           TileEvict(p) /\ UNCHANGED <<statVars, accessVars, cacheVars, metaVars, apiVars>>
    \/ ConsumerRecv /\ UNCHANGED <<accessVars, cacheVars, metaVars, tileVars, apiVars>>
    \/ ConsumerInsert /\ UNCHANGED <<accessVars, cacheVars, metaVars, tileVars, apiVars>>

NextApi ==
    \/ \E rec \in ServedRecords :
           StatInsert(rec) /\ UNCHANGED <<accessVars, cacheVars, metaVars, tileVars, apiVars>>
    \/ ConsumerRecv /\ UNCHANGED <<accessVars, cacheVars, metaVars, tileVars, apiVars>>
    \/ ConsumerInsert /\ UNCHANGED <<accessVars, cacheVars, metaVars, tileVars, apiVars>>
    \/ \E session \in Sessions, verdict \in {Granted, Denied} :
           stat_all(session, verdict)
           /\ UNCHANGED <<accessVars, cacheVars, metaVars, tileVars>>
    \/ \E object \in StatObjects, session \in Sessions, verdict \in {Granted, Denied} :
           stat_object(object, session, verdict)
           /\ UNCHANGED <<accessVars, cacheVars, metaVars, tileVars>>
    \/ \E object \in StatObjects, model \in StatModels, session \in Sessions,
          verdict \in {Granted, Denied} :
           stat_model(object, model, session, verdict)
           /\ UNCHANGED <<accessVars, cacheVars, metaVars, tileVars>>
    \/ StatEndpointGet /\ UNCHANGED <<accessVars, cacheVars, metaVars, tileVars>>
    \/ StatEndpointRespond /\ UNCHANGED <<accessVars, cacheVars, metaVars, tileVars>>

NextExpiry ==
    \/ \E c \in Callers, key \in {ModelKey, AnonymousKey} :
           CheckCall(c, key)
           /\ UNCHANGED <<statVars, cacheVars, metaVars, tileVars, apiVars>>
    \/ \E c \in Callers :
           CheckRemoteSend(c) /\ UNCHANGED <<statVars, cacheVars, metaVars, tileVars, apiVars>>
    \/ \E c \in Callers, outcome \in Outcomes :
           CheckRemoteReturn(c, outcome)
           /\ UNCHANGED <<statVars, cacheVars, metaVars, tileVars, apiVars>>
    \/ \E c \in Callers :
           CheckDone(c) /\ UNCHANGED <<statVars, cacheVars, metaVars, tileVars, apiVars>>
    \/ Tick /\ UNCHANGED <<statVars, cacheVars, metaVars, tileVars, apiVars>>

\* The steps of the consumer task of Stat::new.
IngestRecv ==
    ConsumerRecv /\ UNCHANGED <<accessVars, cacheVars, metaVars, tileVars, apiVars>>

IngestInsert ==
    ConsumerInsert /\ UNCHANGED <<accessVars, cacheVars, metaVars, tileVars, apiVars>>

NextIngest ==
    \/ \E rec \in Record :
           StatInsert(rec) /\ UNCHANGED <<accessVars, cacheVars, metaVars, tileVars, apiVars>>
    \/ IngestRecv
    \/ IngestInsert

\* The metric aggregator alone.
SpecStat == Init /\ [][NextStat]_vars

\* The verdict cache alone.
SpecAccess == Init /\ [][NextAccess]_vars

\* The body cache alone.
SpecCache == Init /\ [][NextCache]_vars

\* The metadata cache alone, over the files.
SpecMeta == Init /\ [][NextMeta]_vars

\* The two caches of the request path, the token of the body cache being the
\* Meta the metadata cache gave.
SpecFresh == Init /\ [][NextFresh]_vars

\* The tile endpoint with its body cache and the metric aggregator.
SpecTile == Init /\ [][NextTile]_vars

\* The service with a verdict already cached and read once.
InitSeeded == InitStat /\ InitExpiry /\ InitCache /\ InitMeta /\ InitTile /\ InitApi

\* The verdict cache from a state in which it holds a verdict, for the checks of
\* the key of that verdict and of one more.
SpecExpiry == InitSeeded /\ [][NextExpiry]_vars

\* The senders and the consumer task of the metric aggregator, the consumer
\* being scheduled fairly by the runtime.
SpecIngest ==
    Init /\ [][NextIngest]_vars /\ WF_vars(IngestRecv) /\ WF_vars(IngestInsert)

\* The stat endpoints with the metric aggregator.
SpecApi == Init /\ [][NextApi]_vars

Next == NextIngest \/ NextExpiry \/ NextApi \/ NextTile \/ NextStat \/ NextAccess \/ NextCache \/ NextMeta \/ NextFresh

Spec == Init /\ [][Next]_vars

=============================================================================
